---- MODULE Spec2Model ----
(***************************************************************************)
(* Gameplay core of super-kaizen-overloaded: the enemy manager's timeline, *)
(* enemy spawning, and the life/damage handling of enemies and player.     *)
(*                                                                         *)
(* Time is counted in whole time units (a dt is a number of units), so the *)
(* f64 accumulation `timeline.time += dt as f64` is exact, as it is for    *)
(* frame-sized f32 steps.  Life and damage are whole numbers: every        *)
(* DamageEvent the program sends carries damage 1.                         *)
(*                                                                         *)
(* SpecTimeline is the sequencer alone (execute_timeline and spawn);       *)
(* SpecLife is the update_player and update_enemy systems, where           *)
(* controller.update is a logged call: what it does to the motion and fire *)
(* patterns has no effect on life or damage.  SpecCollisions is            *)
(* detect_collisions over the collision layers of player, enemies and      *)
(* bullets; SpecController is EnemyController::update with its motion      *)
(* pattern and fire tag; SpecSpiral and SpecAimBurst are the two fire tags *)
(* alone, SpecSpiralRun a spiral that fires at every call and SpecAim an   *)
(* aim burst with the positions of enemy and player; SpecHud is update_hud *)
(* on one lifebar HUD, SpecReadyHud life updates on a HUD that is Ready,   *)
(* and SpecHuds update_hud on the player's and the boss's HUD together;    *)
(* SpecHudRun is update_hud on one HUD with the events of its latest run   *)
(* logged, and SpecHudFair the same with animations that keep ticking and  *)
(* an update_hud that keeps running.                                       *)
(***************************************************************************)
EXTENDS Integers, Sequences, FiniteSets, TLC

\* ------------------------------------------------------------------ bounds

\* Longest timeline drawn for the sequencer specification.
MaxEvents == 3
\* Latest trigger time of a drawn timeline event.
MaxEvTime == 2
\* The sequencer's elapsed time is explored up to this value.
MaxTime == 3
\* Largest single dt of a chunked run of execute_timeline calls.
MaxDt == 2
\* Life of the two enemy kinds of the enemy database (data, not code).
GruntLife == 1
BossLife == 2
\* Longest timeline drawn for the life specification, and its latest time.
MaxFrameEvents == 2
MaxFrameTime == 1
\* Most DamageEvents one system run reads from its EventReader.
MaxDamageEvents == 2
\* The player's life, scaled down from lifebars_count * life_per_lifebar.
PlayerLife == 2
\* CollisionEvents one detect_collisions run may read.
MaxCollisions == 1
\* Largest dt of a fire-tag or controller call, in fire-tag time units.
MaxFireDt == 3
\* Calls of EnemyController::update explored on one controller.
MaxUpdates == 5
\* Calls of FireTagAimBurst::execute explored, and volleys of a spiral.
MaxExecs == 8
MaxVolleys == 30
\* Volleys of a spiral that fires at every call.
MaxRunVolleys == 104
\* Largest x and y of an enemy's or the player's position.
MaxCoord == 2
\* Lifebars of a HUD, and life per lifebar, in an InitLifebarsEvent.
MaxBars == 3
MaxLifePerBar == 2

\* ------------------------------------------------------------------- state

VARIABLES
    events,       \* timeline.events: sequence of [time, enemy, start_pos]
    timeline,     \* manager.timeline: [time, index]
    lastDt,       \* dt of the latest execute_timeline call, -1 before the first
    spawnLog,     \* event indices (0-based) spawn() was called for, in order
    created,      \* enemies created by spawn(), in order: [ev, name, pos]
    diags,        \* names printed by "Failed to spawn unknown enemy type"
    reference,    \* the same timeline run in a single chunk:
                  \* [called, timeline, spawnLog]
    enemies,      \* entity -> EnemyController of the enemies in the world
    player,       \* the player entity: [exists, life, remain_life, lifebar_entity]
    acts,         \* entity -> what the latest run of its system did with it
    cumDamage,    \* entity -> damage addressed to it in all its ticks so far
    deaths,       \* entity -> despawn commands issued for it so far
    panicked,     \* a system panicked (the app is gone)
    bodies,       \* physics bodies of the world: [entity, group, masks]
    hits,         \* per CollisionEvent of the latest detect_collisions run:
                  \* [event, damage, despawn]
    fire_tag,     \* a fire tag: FireTagSpiral or FireTagAimBurst
    shot,         \* the latest execute() of fire_tag: [before, dt, bullets],
                  \* with the [origin, player_position] of its context when
                  \* the bullets are given their direction
    emitted,      \* bullets an aim burst fire_tag has fired so far
    execs,        \* execute() calls made on an aim burst fire_tag so far
    allLong,      \* every execute() so far had dt >= fire_delay
    lane,         \* the latest run of consecutive volleys of a spiral that
                  \* left an arm out: [start, len, prev, arms]
    ctl,          \* an enemy's EnemyController with its animator state
    last,         \* the latest update() of ctl:
                  \* [before, dt, progress, result, executed, bullets]
    updates,      \* update() calls made on ctl so far
    starts,       \* StartFireTag results ctl's motion pattern returned so far
    eligible,     \* calls so far at which the pattern's start condition held
    hud,          \* a LifebarHud with its two Animators
    cycle,        \* show cycle of hud: the phases entered since the latest
                  \* accepted show, each with whether an animation had
                  \* completed when it was entered
    reinit,       \* set_lifebars was called during the show cycle
    crashed,      \* update_hud panicked
    applied,      \* the latest life update given to a Ready hud on its own:
                  \* [before, remain_life, any]
    hide,         \* a request to hide hud: "none", "requested" (made while
                  \* Ready, update_hud has not run since) or "processed"
                  \* (the latest run of update_hud was the first after it)
    huds,         \* HUD entity -> LifebarHud of the HUDs in the world
    expected,     \* HUD entity -> the HUD the latest run of update_hud
                  \* leaves when the HUD is given the events addressed to
                  \* it that arrived in the tick
    arrived,      \* UpdateLifebarsEvents sent in the tick of the latest run
    stale,        \* UpdateLifebarsEvents of the tick before, still unread
                  \* when the latest run started
    unread,       \* UpdateLifebarsEvents the reader of update_hud has not
                  \* read yet
    run           \* the latest run of update_hud on hud, when nothing has
                  \* happened since: [any, before, init_events, show_events,
                  \* update_events, colored, panicked]

seqVars == <<lastDt, spawnLog, created, diags, reference>>
lifeVars == <<enemies, player, acts, cumDamage, deaths, panicked>>
collVars == <<bodies, hits>>
fireVars == <<fire_tag, shot, emitted, execs, allLong, lane>>
ctlVars == <<ctl, last, updates, starts, eligible>>
hudsVars == <<huds, expected, arrived, stale, unread>>
hudVars == <<hud, cycle, reinit, crashed, applied, hide, hudsVars, run>>
auxVars == <<collVars, fireVars, ctlVars, hudVars>>
vars == <<events, timeline, seqVars, lifeVars, auxVars>>

\* --------------------------------------------------------- enemy database

\* manager.descriptors after setup_enemy: name -> descriptor.
Descriptors ==
    [grunt |-> [name |-> "grunt", life |-> GruntLife, is_boss |-> FALSE,
                fire_tag_kind |-> "AimBurst", motion_pattern_kind |-> "FlyBy",
                bullet_kind |-> "WhiteBall"],
     boss  |-> [name |-> "boss", life |-> BossLife, is_boss |-> TRUE,
                fire_tag_kind |-> "Spiral", motion_pattern_kind |-> "EnterStay",
                bullet_kind |-> "PinkDonut"]]

\* What a timeline event may name and where it spawns; "ghost" is in no
\* descriptor.
EventTemplates ==
    { [enemy |-> "grunt", start_pos |-> 1],
      [enemy |-> "ghost", start_pos |-> -1] }

TimelineEvent ==
    { [time |-> t, enemy |-> k.enemy, start_pos |-> k.start_pos] :
        t \in 0..MaxEvTime, k \in EventTemplates }

\* Every event list of at most n events (the code never sorts the list).
EventLists(n) == UNION { [1..m -> TimelineEvent] : m \in 0..n }

\* What a timeline event of the life specification names: the two enemy
\* kinds of the descriptor table.
FrameTemplates ==
    { [enemy |-> "grunt", start_pos |-> 1],
      [enemy |-> "boss", start_pos |-> -1] }

\* Its k-th event is due one time unit after the one before, up to
\* MaxFrameTime.
FrameTime(k) == IF k - 1 < MaxFrameTime THEN k - 1 ELSE MaxFrameTime

\* The event lists of the life specification.
FrameEventLists ==
    UNION { { [k \in 1..m |-> [time |-> FrameTime(k), enemy |-> f[k].enemy,
                               start_pos |-> f[k].start_pos]] :
                f \in [1..m -> FrameTemplates] } :
            m \in 0..MaxFrameEvents }

\* Timeline::default()
TimelineDefault == [time |-> 0, index |-> 0]

\* ------------------------------------------------------- EnemyManager

\* scan_timeline with the comparison `ev.time >= time`: an event is held back
\* until the elapsed time is strictly past its time.
RECURSIVE scan_timeline_ge(_, _, _)
scan_timeline_ge(index, time, calls) ==
    IF index >= Len(events)
    THEN [index |-> Len(events), calls |-> calls]
    ELSE IF events[index + 1].time >= time
         THEN [index |-> index, calls |-> calls]
         ELSE scan_timeline_ge(index + 1, time, Append(calls, index))

\* The for loop of execute_timeline from `index`, with `time` already
\* advanced: the index it stops at and the events it called spawn() for.
RECURSIVE scan_timeline(_, _, _)
scan_timeline(index, time, calls) ==
    IF index >= Len(events)
    THEN [index |-> Len(events), calls |-> calls]
    ELSE IF events[index + 1].time > time
         THEN [index |-> index, calls |-> calls]
         ELSE scan_timeline(index + 1, time, Append(calls, index))

\* execute_timeline comparing event times with dt instead of the elapsed time.
execute_timeline_dt(tl, dt) ==
    LET s == scan_timeline(tl.index, dt, <<>>)
    IN  [timeline |-> [time |-> tl.time + dt, index |-> s.index],
         calls |-> s.calls]

\* execute_timeline without `self.timeline.index = index` on the early return.
execute_timeline_nosave(tl, dt) ==
    LET t == tl.time + dt
        s == scan_timeline(tl.index, t, <<>>)
    IN  [timeline |-> [time |-> t,
                       index |-> IF s.index = Len(events) THEN s.index
                                 ELSE tl.index],
         calls |-> s.calls]

\* execute_timeline storing, on the early return, the position relative to
\* where the scan started (an enumerate() over the remaining events).
execute_timeline_rel(tl, dt) ==
    LET t == tl.time + dt
        s == scan_timeline(tl.index, t, <<>>)
    IN  [timeline |-> [time |-> t,
                       index |-> IF s.index = Len(events) THEN s.index
                                 ELSE s.index - tl.index],
         calls |-> s.calls]

\* execute_timeline scanning from event 0 on every call.
execute_timeline_rescan(tl, dt) ==
    LET t == tl.time + dt
        s == scan_timeline(0, t, <<>>)
    IN  [timeline |-> [time |-> t, index |-> s.index], calls |-> s.calls]

\* EnemyManager::execute_timeline: the timeline after the call and the
\* event indices spawn() was called for, in call order.
execute_timeline(tl, dt) ==
    LET t == tl.time + dt
        s == scan_timeline(tl.index, t, <<>>)
    IN  [timeline |-> [time |-> t, index |-> s.index], calls |-> s.calls]

\* ----------------------------------------------------------------- fire tags
\*
\* Fire-tag time is counted in units of 0.02 s and angles in tenths of a
\* degree, so that fire_delay, rotate_speed * dt and TAU / arms_count are
\* whole numbers; f32 rounding is not modelled.

\* FireTagSpiral::default() and FireTagAimBurst::default().
ArmsCount == 6
BulletCount == 6
FireDelay == 2
RotateStep == 7
TAU == 3600
PI == 1800

FireTagSpiralDefault ==
    [kind |-> "Spiral", arms_count |-> ArmsCount, fire_delay |-> FireDelay,
     rotate_speed |-> RotateStep, cur_time |-> 0, cur_angle |-> 0, cur_iter |-> 0]

FireTagAimBurstDefault ==
    [kind |-> "AimBurst", bullet_count |-> BulletCount, fire_delay |-> FireDelay,
     cur_time |-> 0, cur_iter |-> 0]

Abs(x) == IF x < 0 THEN -x ELSE x

\* The aim arm search keeping the later of two equally close arms.
RECURSIVE aim_arm_lt(_, _, _, _, _)
aim_arm_lt(best, idx, n, angle, delta_angle) ==
    IF idx >= n THEN best
    ELSE LET a0 == (angle + delta_angle * best) % TAU
             a1 == (angle + delta_angle * idx) % TAU
         IN  aim_arm_lt(IF Abs(a0 - PI) < Abs(a1 - PI) THEN best ELSE idx,
                        idx + 1, n, angle, delta_angle)

\* The min_by of FireTagSpiral::execute over the arms idx..n-1, `best` being
\* the arm kept so far: the comparator keeps the earlier arm unless the later
\* one is strictly closer to player_angle.
RECURSIVE aim_arm(_, _, _, _, _)
aim_arm(best, idx, n, angle, delta_angle) ==
    IF idx >= n THEN best
    ELSE LET a0 == (angle + delta_angle * best) % TAU
             a1 == (angle + delta_angle * idx) % TAU
         IN  aim_arm(IF Abs(a0 - PI) <= Abs(a1 - PI) THEN best ELSE idx,
                     idx + 1, n, angle, delta_angle)

\* The `for idx in 0..arms_count` loop of FireTagSpiral::execute from arm
\* idx at `angle`: the bullets context.fire() is called for, in order.
RECURSIVE spiral_arms(_, _, _, _, _, _)
spiral_arms(idx, n, angle, delta_angle, cur_iter, aim_arm_idx) ==
    IF idx >= n THEN <<>>
    ELSE (IF cur_iter % 25 >= 5 \/ idx # aim_arm_idx
          THEN << [angle |-> angle, aimed |-> FALSE] >>
          ELSE <<>>)
         \o spiral_arms(idx + 1, n, (angle + delta_angle) % TAU, delta_angle,
                        cur_iter, aim_arm_idx)

\* The spiral keeping the time in excess of fire_delay when it fires.
FireTagSpiral_execute_carry(tag, dt) ==
    LET cur_time == tag.cur_time + dt
        volley == cur_time >= tag.fire_delay
        delta_angle == TAU \div tag.arms_count
        angle == tag.cur_angle % TAU
        aim_arm_idx == aim_arm(0, 1, tag.arms_count, angle, delta_angle)
        cur_iter == IF volley THEN tag.cur_iter + 1 ELSE tag.cur_iter
    IN  [tag |-> [tag EXCEPT !.cur_time = IF volley
                                          THEN cur_time - tag.fire_delay
                                          ELSE cur_time,
                             !.cur_iter = cur_iter,
                             !.cur_angle = (@ + tag.rotate_speed * dt) % TAU],
         bullets |-> IF volley
                     THEN spiral_arms(0, tag.arms_count, angle, delta_angle,
                                      cur_iter, aim_arm_idx)
                     ELSE <<>>]

\* The spiral suppressing its aim arm while cur_iter % 25 <= 5.
FireTagSpiral_execute_le(tag, dt) ==
    LET cur_time == tag.cur_time + dt
        volley == cur_time >= tag.fire_delay
        delta_angle == TAU \div tag.arms_count
        angle == tag.cur_angle % TAU
        aim_arm_idx == aim_arm(0, 1, tag.arms_count, angle, delta_angle)
        cur_iter == IF volley THEN tag.cur_iter + 1 ELSE tag.cur_iter
    IN  [tag |-> [tag EXCEPT !.cur_time = IF volley THEN 0 ELSE cur_time,
                             !.cur_iter = cur_iter,
                             !.cur_angle = (@ + tag.rotate_speed * dt) % TAU],
         bullets |-> IF volley
                     THEN spiral_arms(0, tag.arms_count, angle, delta_angle,
                                      IF cur_iter % 25 = 5 THEN 0 ELSE cur_iter,
                                      aim_arm_idx)
                     ELSE <<>>]

\* FireTagSpiral::execute with context.dt = dt: the pattern after the call
\* and the bullets fired.
FireTagSpiral_execute(tag, dt) ==
    LET cur_time == tag.cur_time + dt
        volley == cur_time >= tag.fire_delay
        delta_angle == TAU \div tag.arms_count
        angle == tag.cur_angle % TAU
        aim_arm_idx == aim_arm(0, 1, tag.arms_count, angle, delta_angle)
        cur_iter == IF volley THEN tag.cur_iter + 1 ELSE tag.cur_iter
    IN  [tag |-> [tag EXCEPT !.cur_time = IF volley THEN 0 ELSE cur_time,
                             !.cur_iter = cur_iter,
                             !.cur_angle = (@ + tag.rotate_speed * dt) % TAU],
         bullets |-> IF volley
                     THEN spiral_arms(0, tag.arms_count, angle, delta_angle,
                                      cur_iter, aim_arm_idx)
                     ELSE <<>>]

\* The aim burst without the `cur_iter < bullet_count` test.
FireTagAimBurst_execute_forever(tag, dt) ==
    LET cur_time == tag.cur_time + dt
    IN  IF cur_time >= tag.fire_delay
        THEN [tag |-> [tag EXCEPT !.cur_time = 0, !.cur_iter = @ + 1],
              bullets |-> << [angle |-> 0, aimed |-> TRUE] >>]
        ELSE [tag |-> [tag EXCEPT !.cur_time = cur_time], bullets |-> <<>>]

\* The aim burst firing only when cur_time exceeds fire_delay.
FireTagAimBurst_execute_gt(tag, dt) ==
    IF tag.cur_iter < tag.bullet_count
    THEN LET cur_time == tag.cur_time + dt
         IN  IF cur_time > tag.fire_delay
             THEN [tag |-> [tag EXCEPT !.cur_time = 0, !.cur_iter = @ + 1],
                   bullets |-> << [angle |-> 0, aimed |-> TRUE] >>]
             ELSE [tag |-> [tag EXCEPT !.cur_time = cur_time], bullets |-> <<>>]
    ELSE [tag |-> tag, bullets |-> <<>>]

\* FireTagAimBurst::execute with context.dt = dt.
FireTagAimBurst_execute(tag, dt) ==
    IF tag.cur_iter < tag.bullet_count
    THEN LET cur_time == tag.cur_time + dt
         IN  IF cur_time >= tag.fire_delay
             THEN [tag |-> [tag EXCEPT !.cur_time = 0, !.cur_iter = @ + 1],
                   bullets |-> << [angle |-> 0, aimed |-> TRUE] >>]
             ELSE [tag |-> [tag EXCEPT !.cur_time = cur_time], bullets |-> <<>>]
    ELSE [tag |-> tag, bullets |-> <<>>]

\* fire_tag.execute(&mut context) on the boxed FireTag.
execute(tag, dt) ==
    IF tag.kind = "Spiral" THEN FireTagSpiral_execute(tag, dt)
    ELSE FireTagAimBurst_execute(tag, dt)

\* ------------------------------------------------------------- spawning

\* EnterStayMotion::default() with enter_height = position.y (a position is
\* its y coordinate).
EnterStayMotionNew(position) ==
    [kind |-> "EnterStay", phase |-> "Idle", enter_height |-> position]

\* FlyByMotion::default() with start and direction set from the position.
FlyByMotionNew(position) ==
    [kind |-> "FlyBy", start |-> position,
     direction |-> IF position > 0 THEN "up_left" ELSE "down_left",
     has_fired |-> FALSE]

\* The EnemyController spawn() builds from a descriptor; the entity gets a
\* paused Animator.
EnemyControllerNew(desc, position) ==
    [name |-> desc.name,
     motion_pattern |-> IF desc.motion_pattern_kind = "EnterStay"
                        THEN EnterStayMotionNew(position)
                        ELSE FlyByMotionNew(position),
     fire_tag |-> IF desc.fire_tag_kind = "Spiral"
                  THEN FireTagSpiralDefault
                  ELSE FireTagAimBurstDefault,
     fire_tag_started |-> FALSE,
     life |-> desc.life,
     remain_life |-> desc.life,
     animator |-> "Paused"]

\* spawn falling back to a default enemy when the name is unknown.
spawn_default(ev) ==
    [enemies |-> << [ev |-> ev, name |-> events[ev + 1].enemy,
                     pos |-> events[ev + 1].start_pos,
                     controller |-> EnemyControllerNew(Descriptors.grunt,
                                        events[ev + 1].start_pos)] >>,
     diags |-> <<>>]

\* EnemyManager::spawn for event index ev: the enemy it creates (none for an
\* unknown name) and the diagnostic it prints.
spawn(ev) ==
    LET desc == events[ev + 1].enemy
        position == events[ev + 1].start_pos
    IN  IF desc \in DOMAIN Descriptors
        THEN [enemies |-> << [ev |-> ev, name |-> Descriptors[desc].name,
                              pos |-> position,
                              controller |->
                                  EnemyControllerNew(Descriptors[desc], position)] >>,
              diags |-> <<>>]
        ELSE [enemies |-> <<>>, diags |-> <<desc>>]

\* The spawn() calls of one execute_timeline, in order.
RECURSIVE spawn_all(_)
spawn_all(calls) ==
    IF calls = <<>>
    THEN [enemies |-> <<>>, diags |-> <<>>]
    ELSE LET h == spawn(Head(calls))
             r == spawn_all(Tail(calls))
         IN  [enemies |-> h.enemies \o r.enemies, diags |-> h.diags \o r.diags]

\* Number of occurrences of x in sequence s.
Occurrences(s, x) == Cardinality({ k \in 1..Len(s) : s[k] = x })

\* ------------------------------------------------------------ life and damage

\* The player entity; the enemy spawned for events[k] is entity k.
PlayerEntity == 0

\* Entity ids the timeline can give rise to, and the player.
Entities == 0..Len(events)

\* The boss lifebar entity the enemy manager holds, and the player's lifebar.
BossLifebar == "BossLifebar"
PlayerLifebar == "PlayerLifebar"

\* A DamageEvent as detect_collisions sends it: damage 1 for an entity.
DamageEvent(S) == { [entity |-> e, damage |-> 1] : e \in S }

\* What one run of a system may read from its EventReader<DamageEvent>: the
\* events sent since its previous run, addressed to entities of S.
DamageBatches(S) == UNION { [1..m -> DamageEvent(S)] : m \in 0..MaxDamageEvents }

\* The sum of the damage of the events addressed to entity e.
RECURSIVE SumDamage(_, _)
SumDamage(evs, e) ==
    IF evs = <<>> THEN 0
    ELSE (IF Head(evs).entity = e THEN Head(evs).damage ELSE 0)
         + SumDamage(Tail(evs), e)

\* Log entry of an entity its system has not handled: `queried` is whether
\* the run's query held the entity, `addressed` the damage of the run's events
\* addressed to it, `damage` the damage subtracted, `sent` the
\* UpdateLifebarsEvents sent for it, `update` the runs of its move/fire code
\* (controller.update for an enemy), `despawn` the despawn commands issued,
\* `before` and `after` its remain_life when the run started and ended.
NoActs == [queried |-> FALSE, addressed |-> 0, damage |-> 0, sent |-> <<>>,
           update |-> 0, despawn |-> 0, before |-> 0, after |-> 0]

\* update_enemy's loop body without the `return` after the despawn: the
\* controller of a killed enemy is still updated.
update_one_enemy_noreturn(e, c, damage_events, playerExists) ==
    LET damage == SumDamage(damage_events, e)
        c1 == IF damage > 0 THEN [c EXCEPT !.remain_life = @ - damage] ELSE c
        sent == IF damage > 0
                THEN << [entity |-> BossLifebar, remain_life |-> c1.remain_life] >>
                ELSE <<>>
    IN  [controller |-> c1, sent |-> sent, damage |-> damage,
         despawn |-> c1.remain_life <= 0, return |-> FALSE,
         panic |-> ~playerExists,
         update |-> IF playerExists THEN 1 ELSE 0]

\* update_enemy's loop body notifying the boss lifebar for the boss alone: a
\* damaged enemy of another kind sends nothing.
update_one_enemy_boss_only(e, c, damage_events, playerExists) ==
    LET damage == SumDamage(damage_events, e)
        c1 == IF damage > 0 THEN [c EXCEPT !.remain_life = @ - damage] ELSE c
        sent == IF damage > 0 /\ c.name = "boss"
                THEN << [entity |-> BossLifebar, remain_life |-> c1.remain_life] >>
                ELSE <<>>
        base == [controller |-> c1, sent |-> sent, damage |-> damage,
                 despawn |-> FALSE, return |-> FALSE, panic |-> FALSE,
                 update |-> 0]
    IN  IF c1.remain_life <= 0
        THEN [base EXCEPT !.despawn = TRUE, !.return = TRUE]
        ELSE IF ~playerExists
             THEN [base EXCEPT !.panic = TRUE]
             ELSE [base EXCEPT !.update = 1]

\* One iteration of update_enemy's loop, for entity e with controller c: the
\* damage part, the death check with its `return`, and the controller.update
\* call (whose argument q_player.single() panics when there is no player).
update_one_enemy(e, c, damage_events, playerExists) ==
    LET damage == SumDamage(damage_events, e)
        c1 == IF damage > 0 THEN [c EXCEPT !.remain_life = @ - damage] ELSE c
        sent == IF damage > 0
                THEN << [entity |-> BossLifebar, remain_life |-> c1.remain_life] >>
                ELSE <<>>
        base == [controller |-> c1, sent |-> sent, damage |-> damage,
                 despawn |-> FALSE, return |-> FALSE, panic |-> FALSE,
                 update |-> 0]
    IN  IF c1.remain_life <= 0
        THEN [base EXCEPT !.despawn = TRUE, !.return = TRUE]
        ELSE IF ~playerExists
             THEN [base EXCEPT !.panic = TRUE]
             ELSE [base EXCEPT !.update = 1]

\* The log entry a after one handling with result r.
Logged(a, r) ==
    [a EXCEPT !.damage = @ + r.damage, !.sent = @ \o r.sent,
              !.update = @ + r.update,
              !.despawn = @ + (IF r.despawn THEN 1 ELSE 0),
              !.after = r.controller.remain_life]

\* update_enemy's `for ... in query.iter_mut()` over the enemies in `order`,
\* from state st = [enemies, despawn, acts, panicked]; the `return` and the
\* panic both end the loop.
RECURSIVE update_enemy_loop(_, _, _)
update_enemy_loop(order, damage_events, st) ==
    IF order = <<>>
    THEN st
    ELSE LET e == Head(order)
             r == update_one_enemy(e, st.enemies[e], damage_events, player.exists)
             st1 == [enemies |-> [st.enemies EXCEPT ![e] = r.controller],
                     despawn |-> IF r.despawn THEN st.despawn \cup {e}
                                 ELSE st.despawn,
                     acts |-> [st.acts EXCEPT ![e] = Logged(@, r)],
                     panicked |-> r.panic]
         IN  IF r.return \/ r.panic
             THEN st1
             ELSE update_enemy_loop(Tail(order), damage_events, st1)

\* update_player for the player p, from the damage sum to the death check;
\* `update` is whether the move and fire code after the check is reached.
update_player(p, damage_events) ==
    LET damage == SumDamage(damage_events, PlayerEntity)
        p1 == IF damage > 0 THEN [p EXCEPT !.remain_life = @ - damage] ELSE p
        sent == IF damage > 0
                THEN << [entity |-> p.lifebar_entity,
                         remain_life |-> p1.remain_life] >>
                ELSE <<>>
    IN  [player |-> p1, sent |-> sent, damage |-> damage,
         despawn |-> p1.remain_life <= 0,
         update |-> IF p1.remain_life <= 0 THEN 0 ELSE 1]

\* Every order in which a query may yield the entities of set S.
Orders(S) ==
    { o \in [1..Cardinality(S) -> S] : \A i, j \in 1..Cardinality(S) :
                                          i # j => o[i] # o[j] }

\* The enemies of the world once the commands a system queued are applied,
\* at the end of the stage: cmds = [spawn, despawn].
ApplyCommands(world, cmds) ==
    LET born == 1..Len(cmds.spawn)
        ids == { cmds.spawn[k].ev + 1 : k \in born }
        keep == DOMAIN world \ cmds.despawn
    IN  [e \in keep \cup ids |->
            IF e \in keep THEN world[e]
            ELSE cmds.spawn[CHOOSE k \in born : cmds.spawn[k].ev + 1 = e].controller]

\* The variables of the other specifications, at rest.
\* -------------------------------------------------------------- lifebar HUD
\*
\* One LifebarHud with the Animator of its entity (the slide) and the
\* Animator of its over bar (the fill).  Life is in whole points, animation
\* progress and the over bar's scale in percent.

\* Colours of lifebars, undermost first.
Palette == <<"RED", "ORANGE", "YELLOW", "GREEN", "CYAN">>
Colors(n) == SubSeq(Palette, 1, n)

\* LifebarFillSeqPhase.
Phase(p) == [phase |-> p, bar |-> 0]
FillUp(i) == [phase |-> "FillUp", bar |-> i]

\* Animator::default().with_state(AnimatorState::Paused): no tweenable,
\* progress() is 0.
AnimatorDefault == [state |-> "Paused", tween |-> "None", progress |-> 0]

\* Animator::stop(): pauses and rewinds.
stop(animator) == [animator EXCEPT !.state = "Paused", !.progress = 0]

LifebarHudDefault ==
    [lifebars |-> <<>>, index |-> 0, life |-> 0, remain_life |-> 0,
     force_update |-> FALSE, under_color |-> "NONE", over_color |-> "NONE",
     fill_seq |-> Phase("Idle"), animator |-> AnimatorDefault,
     over_animator |-> AnimatorDefault, orientation |-> "Horizontal",
     over_scale |-> [x |-> 100, y |-> 100]]

\* LifebarHud::set_lifebars.
set_lifebars(h, life, colors) ==
    [h EXCEPT !.lifebars = colors, !.index = Len(colors) - 1, !.life = life,
              !.remain_life = life, !.force_update = TRUE]

\* LifebarHud::spawn: the materials of the two bars.
LifebarHud_spawn(h) ==
    [h EXCEPT !.under_color = h.lifebars[1],
              !.over_color = h.lifebars[Len(h.lifebars)]]

\* The `for ev in init_events.iter()` loop of update_hud.
RECURSIVE init_lifebars(_, _)
init_lifebars(h, init_events) ==
    IF init_events = <<>> THEN h
    ELSE init_lifebars(set_lifebars(h, Head(init_events).life_per_bar,
                                    Head(init_events).colors),
                       Tail(init_events))

\* The show loop restarting the slide whatever the phase.
RECURSIVE show_lifebars_always(_, _)
show_lifebars_always(h, show_events) ==
    IF show_events = <<>> THEN h
    ELSE show_lifebars_always(
             [h EXCEPT !.animator = [state |-> "Playing", tween |-> "Slide",
                                     progress |-> 0],
                       !.fill_seq = Phase("SlideIn"),
                       !.index = 0],
             Tail(show_events))

\* The show loop leaving hud.index as it was.
RECURSIVE show_lifebars_keep_index(_, _)
show_lifebars_keep_index(h, show_events) ==
    IF show_events = <<>> THEN h
    ELSE show_lifebars_keep_index(
             IF h.fill_seq = Phase("Idle")
             THEN [h EXCEPT !.animator = [state |-> "Playing", tween |-> "Slide",
                                          progress |-> 0],
                            !.fill_seq = Phase("SlideIn")]
             ELSE h,
             Tail(show_events))

\* The `for ev in show_events.iter()` loop of update_hud.
RECURSIVE show_lifebars(_, _)
show_lifebars(h, show_events) ==
    IF show_events = <<>> THEN h
    ELSE show_lifebars(
             IF h.fill_seq = Phase("Idle")
             THEN [h EXCEPT !.animator = [state |-> "Playing", tween |-> "Slide",
                                          progress |-> 0],
                            !.fill_seq = Phase("SlideIn"),
                            !.index = 0]
             ELSE h,
             Tail(show_events))

\* An animation of the HUD has completed.
Completed(h) == h.animator.progress >= 100 \/ h.over_animator.progress >= 100

\* The fill sequence starting over from FillUp(0) after the last lifebar.
fill_seq_transition_loop(h) ==
    IF Completed(h)
    THEN LET s == [h EXCEPT !.animator = stop(@), !.over_animator = stop(@)]
         IN  CASE h.fill_seq.phase = "SlideIn" ->
                    [hud |-> [s EXCEPT !.fill_seq = FillUp(0),
                                       !.over_animator = [state |-> "Playing",
                                                          tween |-> "Fill",
                                                          progress |-> 0]],
                     need_color_update |-> TRUE]
               [] h.fill_seq.phase = "FillUp" ->
                    IF h.fill_seq.bar + 1 < Len(h.lifebars)
                    THEN [hud |-> [s EXCEPT !.index = h.fill_seq.bar + 1,
                                            !.fill_seq = FillUp(h.fill_seq.bar + 1),
                                            !.over_animator.state = "Playing"],
                          need_color_update |-> TRUE]
                    ELSE [hud |-> [s EXCEPT !.index = 0,
                                            !.fill_seq = FillUp(0),
                                            !.over_animator.state = "Playing"],
                          need_color_update |-> TRUE]
               [] h.fill_seq.phase = "SlideOut" ->
                    [hud |-> [s EXCEPT !.fill_seq = Phase("Idle")],
                     need_color_update |-> FALSE]
               [] OTHER -> [hud |-> s, need_color_update |-> FALSE]
    ELSE [hud |-> h, need_color_update |-> FALSE]

\* The fill sequence stepping whether or not an animation has completed.
fill_seq_transition_early(h) ==
    LET s == [h EXCEPT !.animator = stop(@), !.over_animator = stop(@)]
    IN  CASE h.fill_seq.phase = "SlideIn" ->
               [hud |-> [s EXCEPT !.fill_seq = FillUp(0),
                                  !.over_animator = [state |-> "Playing",
                                                     tween |-> "Fill",
                                                     progress |-> 0]],
                need_color_update |-> TRUE]
          [] h.fill_seq.phase = "FillUp" ->
               IF h.fill_seq.bar + 1 < Len(h.lifebars)
               THEN [hud |-> [s EXCEPT !.index = h.fill_seq.bar + 1,
                                       !.fill_seq = FillUp(h.fill_seq.bar + 1),
                                       !.over_animator.state = "Playing"],
                     need_color_update |-> TRUE]
               ELSE [hud |-> [s EXCEPT !.fill_seq = Phase("Ready")],
                     need_color_update |-> FALSE]
          [] h.fill_seq.phase = "SlideOut" ->
               [hud |-> [s EXCEPT !.fill_seq = Phase("Idle")],
                need_color_update |-> FALSE]
          [] OTHER -> [hud |-> s, need_color_update |-> FALSE]

\* "Transition fill sequence if needed" of update_hud.
fill_seq_transition(h) ==
    IF Completed(h)
    THEN LET s == [h EXCEPT !.animator = stop(@), !.over_animator = stop(@)]
         IN  CASE h.fill_seq.phase = "SlideIn" ->
                    [hud |-> [s EXCEPT !.fill_seq = FillUp(0),
                                       !.over_animator = [state |-> "Playing",
                                                          tween |-> "Fill",
                                                          progress |-> 0]],
                     need_color_update |-> TRUE]
               [] h.fill_seq.phase = "FillUp" ->
                    IF h.fill_seq.bar + 1 < Len(h.lifebars)
                    THEN [hud |-> [s EXCEPT !.index = h.fill_seq.bar + 1,
                                            !.fill_seq = FillUp(h.fill_seq.bar + 1),
                                            !.over_animator.state = "Playing"],
                          need_color_update |-> TRUE]
                    ELSE [hud |-> [s EXCEPT !.fill_seq = Phase("Ready")],
                          need_color_update |-> FALSE]
               [] h.fill_seq.phase = "SlideOut" ->
                    [hud |-> [s EXCEPT !.fill_seq = Phase("Idle")],
                     need_color_update |-> FALSE]
               [] OTHER -> [hud |-> s, need_color_update |-> FALSE]
    ELSE [hud |-> h, need_color_update |-> FALSE]

\* f32 division r / c truncated toward zero, and what is left of r; c > 0.
Trunc(r, c) == IF r >= 0 THEN r \div c ELSE -((-r) \div c)
Rem(r, c) == r - Trunc(r, c) * c

\* over_transform.scale (x and y, in percent) of a bar filled to
\* over_progress along the fill axis of its orientation.
OverScale(orientation, over_progress) ==
    IF orientation = "Horizontal"
    THEN [x |-> over_progress, y |-> 100]
    ELSE [x |-> 100, y |-> over_progress]

\* update_lifebars applying a life update whatever the phase.
update_lifebars_any_phase(h, update_events) ==
    IF update_events # <<>>
    THEN LET ev == update_events[Len(update_events)]
             new_index == IF ev.remain_life < 0 THEN 0
                          ELSE ev.remain_life \div h.life
             over_progress == Trunc(Rem(ev.remain_life, h.life) * 100, h.life)
         IN  [hud |-> [h EXCEPT !.remain_life = Rem(ev.remain_life, h.life),
                                !.index = new_index,
                                !.over_scale = OverScale(h.orientation,
                                                         over_progress)],
              need_color_update |-> h.index # new_index]
    ELSE [hud |-> h, need_color_update |-> FALSE]

\* update_lifebars sliding the HUD out when no life remains.
update_lifebars_hide(h, update_events) ==
    IF h.fill_seq = Phase("Ready") /\ update_events # <<>>
    THEN LET ev == update_events[Len(update_events)]
             new_index == IF ev.remain_life < 0 THEN 0
                          ELSE ev.remain_life \div h.life
             over_progress == Trunc(Rem(ev.remain_life, h.life) * 100, h.life)
         IN  [hud |-> [h EXCEPT !.remain_life = Rem(ev.remain_life, h.life),
                                !.index = new_index,
                                !.over_scale = OverScale(h.orientation,
                                                         over_progress),
                                !.fill_seq = IF ev.remain_life <= 0
                                             THEN Phase("SlideOut") ELSE @],
              need_color_update |-> h.index # new_index]
    ELSE [hud |-> h, need_color_update |-> FALSE]

\* update_lifebars scaling the over bar along x whatever the orientation.
update_lifebars_x(h, update_events) ==
    IF h.fill_seq = Phase("Ready") /\ update_events # <<>>
    THEN LET ev == update_events[Len(update_events)]
             new_index == IF ev.remain_life < 0 THEN 0
                          ELSE ev.remain_life \div h.life
             over_progress == Trunc(Rem(ev.remain_life, h.life) * 100, h.life)
         IN  [hud |-> [h EXCEPT !.remain_life = Rem(ev.remain_life, h.life),
                                !.index = new_index,
                                !.over_scale = [x |-> over_progress, y |-> 100]],
              need_color_update |-> h.index # new_index]
    ELSE [hud |-> h, need_color_update |-> FALSE]

\* "Update lifetime bars from damage events" of update_hud: update_events
\* are the events update_events.iter() yields for this HUD.  floor() of a
\* negative quotient cast `as usize` is 0.
update_lifebars(h, update_events) ==
    IF h.fill_seq = Phase("Ready") /\ update_events # <<>>
    THEN LET ev == update_events[Len(update_events)]
             new_index == IF ev.remain_life < 0 THEN 0
                          ELSE ev.remain_life \div h.life
             over_progress == Trunc(Rem(ev.remain_life, h.life) * 100, h.life)
         IN  [hud |-> [h EXCEPT !.remain_life = Rem(ev.remain_life, h.life),
                                !.index = new_index,
                                !.over_scale = OverScale(h.orientation,
                                                         over_progress)],
              need_color_update |-> h.index # new_index]
    ELSE [hud |-> h, need_color_update |-> FALSE]

\* "Update bars color" of update_hud; hud.lifebars[hud.index] panics when
\* the index is out of bounds.
update_colors(h) ==
    IF h.index < Len(h.lifebars)
    THEN [hud |-> [h EXCEPT !.over_color = h.lifebars[h.index + 1],
                            !.under_color = IF h.index > 0
                                            THEN h.lifebars[h.index]
                                            ELSE "NONE"],
          panicked |-> FALSE]
    ELSE [hud |-> h, panicked |-> TRUE]

\* update_hud for one HUD: the HUD after the run, the phases entered in
\* order, whether an animation had completed when the fill sequence was
\* looked at, and whether the run panicked.
update_hud(h, init_events, show_events, update_events) ==
    LET h1 == init_lifebars(h, init_events)
        h2 == show_lifebars(h1, show_events)
        h3 == [h2 EXCEPT !.force_update = FALSE]
        t == fill_seq_transition(h3)
        u == update_lifebars(t.hud, update_events)
        need_color_update ==
            h2.force_update \/ t.need_color_update \/ u.need_color_update
        c == IF need_color_update THEN update_colors(u.hud)
             ELSE [hud |-> u.hud, panicked |-> FALSE]
    IN  [hud |-> c.hud,
         entered |-> (IF h2.fill_seq # h1.fill_seq THEN <<h2.fill_seq>> ELSE <<>>)
                     \o (IF t.hud.fill_seq # h3.fill_seq
                         THEN <<t.hud.fill_seq>> ELSE <<>>),
         completed |-> Completed(h3),
         colored |-> need_color_update,
         panicked |-> c.panicked]

\* No life update applied yet.
NoLifeUpdate == [before |-> LifebarHudDefault, remain_life |-> 0, any |-> FALSE]

\* No run of update_hud to look at.
NoRun == [any |-> FALSE, before |-> LifebarHudDefault, init_events |-> <<>>,
          show_events |-> <<>>, update_events |-> <<>>, colored |-> FALSE,
          panicked |-> FALSE]

\* The entities carrying a LifebarHud.
HudEntities == {PlayerLifebar, BossLifebar}

\* No HUD spawned, no event sent.
InitHuds ==
    /\ huds = [e \in HudEntities |-> LifebarHudDefault]
    /\ expected = [e \in HudEntities |-> LifebarHudDefault]
    /\ arrived = <<>>
    /\ stale = <<>>
    /\ unread = <<>>

InitHud ==
    /\ hud = LifebarHudDefault
    /\ cycle = <<>>
    /\ reinit = FALSE
    /\ crashed = FALSE
    /\ applied = NoLifeUpdate
    /\ hide = "none"
    /\ run = NoRun
    /\ InitHuds

InitColl == bodies = {} /\ hits = <<>>

\* No volley has left an arm out yet.
NoLane == [start |-> 0, len |-> 0, prev |-> 0, arms |-> {}]

InitFire ==
    /\ fire_tag = FireTagAimBurstDefault
    /\ shot = [before |-> FireTagAimBurstDefault, dt |-> 0, bullets |-> <<>>]
    /\ emitted = 0
    /\ execs = 0
    /\ allLong = TRUE
    /\ lane = NoLane

\* No update() yet.
NoUpdate ==
    [before |-> EnemyControllerNew(Descriptors.grunt, 0), dt |-> 0,
     progress |-> 0, result |-> "None", executed |-> 0, bullets |-> <<>>]

InitCtl ==
    /\ ctl = EnemyControllerNew(Descriptors.grunt, 0)
    /\ last = NoUpdate
    /\ updates = 0
    /\ starts = 0
    /\ eligible = 0

InitAux == InitColl /\ InitFire /\ InitCtl /\ InitHud

\* The life variables when the game starts: the player of game_setup, no
\* enemy yet.
InitLifeVars ==
    /\ enemies = [e \in {} |-> 0]
    /\ player = [exists |-> TRUE, life |-> PlayerLife, remain_life |-> PlayerLife,
                 lifebar_entity |-> PlayerLifebar]
    /\ acts = [e \in Entities |-> NoActs]
    /\ cumDamage = [e \in Entities |-> 0]
    /\ deaths = [e \in Entities |-> 0]
    /\ panicked = FALSE

\* The sequencer's variables before its first call.
InitSeqVars ==
    /\ timeline = TimelineDefault
    /\ lastDt = -1
    /\ spawnLog = <<>>
    /\ created = <<>>
    /\ diags = <<>>
    /\ reference = [called |-> FALSE, timeline |-> TimelineDefault,
                    spawnLog |-> <<>>]

\* The world when the game starts.
InitWorld == InitLifeVars /\ InitAux

\* ------------------------------------------------- sequencer specification

InitTimeline ==
    /\ events \in EventLists(MaxEvents)
    /\ timeline = TimelineDefault
    /\ lastDt = -1
    /\ spawnLog = <<>>
    /\ created = <<>>
    /\ diags = <<>>
    /\ reference = [called |-> FALSE, timeline |-> TimelineDefault,
                    spawnLog |-> <<>>]
    /\ InitWorld

\* One execute_timeline(dt) call on the manager's timeline.
ExecuteTimeline(dt) ==
    /\ timeline.time + dt <= MaxTime
    /\ LET r == execute_timeline(timeline, dt)
           s == spawn_all(r.calls)
       IN  /\ timeline' = r.timeline
           /\ lastDt' = dt
           /\ spawnLog' = spawnLog \o r.calls
           /\ created' = created \o s.enemies
           /\ diags' = diags \o s.diags
    /\ UNCHANGED <<events, reference, lifeVars, auxVars>>

\* The reference run: a fresh timeline over the same events, advanced by one
\* execute_timeline(dt) call.
ExecuteReference(dt) ==
    /\ ~reference.called
    /\ LET r == execute_timeline(TimelineDefault, dt)
       IN  reference' = [called |-> TRUE, timeline |-> r.timeline,
                         spawnLog |-> r.calls]
    /\ UNCHANGED <<events, timeline, lastDt, spawnLog, created, diags, lifeVars,
                   auxVars>>

NextTimeline ==
    \/ \E dt \in 0..MaxDt : ExecuteTimeline(dt)
    \/ \E dt \in 0..MaxTime : ExecuteReference(dt)

SpecTimeline == InitTimeline /\ [][NextTimeline]_vars

\* ------------------------------------------------------- sequencer claims

\* The set of events a spawn log names.
Spawned(log) == { log[k] : k \in 1..Len(log) }

\* Event i (0-based) names an enemy of the descriptor table.
Known(i) == events[i + 1].enemy \in DOMAIN Descriptors

\* The i+1 first events all have a time <= t.
PrefixDue(i, t) == \A j \in 0..i : events[j + 1].time <= t

\* C1: whatever the chunking of the dt values, a run that has reached the
\* same total elapsed time as the single-chunk run of that total has spawned
\* the same set of events; so any two chunked runs of equal total agree.
C1_RechunkingSameSpawns ==
    (reference.called /\ lastDt >= 0
        /\ timeline.time = reference.timeline.time)
    => Spawned(spawnLog) = Spawned(reference.spawnLog)

\* C1 witness: total 2 reached by a last chunk of 1 (so by more than one
\* chunk) and by the single chunk 2, with events spawned.
C1_Witness ==
    /\ reference.called /\ reference.timeline.time = 2
    /\ timeline.time = 2 /\ lastDt = 1
    /\ Len(spawnLog) >= 2
    /\ \E k \in 1..Len(events) : events[k].time = 2 /\ (k - 1) \in Spawned(spawnLog)

\* C2: over the whole run spawn() is called at most once for each event.
C2_SpawnAtMostOnce ==
    \A i \in 0..(Len(events) - 1) : Occurrences(spawnLog, i) <= 1

\* C2 witness: an event was spawned by an earlier call and a later call with
\* dt > 0 ran while later events were still pending.
C2_Witness ==
    /\ Len(spawnLog) >= 1
    /\ lastDt > 0
    /\ events[spawnLog[1] + 1].time <= timeline.time - lastDt
    /\ timeline.index < Len(events)

\* C3: timeline.index stays within 0..events.len() and never decreases.
C3_IndexMonotoneInRange ==
    /\ [](timeline.index \in 0..Len(events))
    /\ [][timeline.index' >= timeline.index]_vars

\* C3 witness: the index has advanced and stopped inside the list.
C3_Witness ==
    /\ lastDt >= 0
    /\ timeline.index > 0
    /\ timeline.index < Len(events)

\* C4: one call adds dt to the elapsed time, then calls spawn(), in
\* declaration order, for exactly the consecutive events from the old index
\* whose time <= the new elapsed time, and leaves index at the first event
\* whose time is greater (or at events.len()).
C4_CallSpawnsMaximalRun ==
    [][ (timeline' # timeline \/ lastDt' # lastDt) =>
          LET from == timeline.index
              to == timeline.index'
              new == timeline.time'
          IN  /\ new = timeline.time + lastDt'
              /\ from <= to /\ to <= Len(events)
              /\ spawnLog' = spawnLog \o [k \in 1..(to - from) |-> from + k - 1]
              /\ \A i \in from..(to - 1) : events[i + 1].time <= new
              /\ to < Len(events) => events[to + 1].time > new ]_vars

\* C4 witness: one call spawned two events with the same time, the second
\* when the elapsed time equals its time, and stopped at a third.
C4_Witness ==
    /\ Len(events) = 3
    /\ lastDt = 1
    /\ timeline = [time |-> 1, index |-> 2]
    /\ events[1].time = 1 /\ events[2].time = 1
    /\ spawnLog = <<0, 1>>

\* C5: an event naming an unknown enemy creates no enemy and is never spawned
\* again; the index moves past every due event, and every known event the
\* index has passed has created exactly one enemy.
C5_UnknownEnemyDropped ==
    /\ \A i \in 0..(Len(events) - 1) :
          /\ ~Known(i) => /\ \A k \in 1..Len(created) : created[k].ev # i
                          /\ Occurrences(spawnLog, i) <= 1
          /\ (lastDt >= 0 /\ PrefixDue(i, timeline.time)) => timeline.index > i
          /\ (Known(i) /\ i < timeline.index)
                => Cardinality({ k \in 1..Len(created) : created[k].ev = i }) = 1
    /\ Len(diags) = Cardinality({ i \in Spawned(spawnLog) : ~Known(i) })

\* C5 witness: an unknown event and a later known event were due in the same
\* call, the known one was created, and a further call has run since.
C5_Witness ==
    /\ Len(events) >= 2
    /\ ~Known(0) /\ Known(1)
    /\ events[1].time = events[2].time
    /\ lastDt > 0 /\ events[1].time <= timeline.time - lastDt
    /\ diags = <<"ghost">>
    /\ \E k \in 1..Len(created) : created[k].ev = 1

\* C6: once index = events.len(), a call spawns nothing and leaves index at
\* events.len().
C6_ExhaustedIsInert ==
    [][ timeline.index = Len(events) =>
          /\ timeline.index' = Len(events)
          /\ spawnLog' = spawnLog
          /\ created' = created
          /\ diags' = diags ]_vars

\* C6 witness: the timeline was already exhausted before the latest call,
\* which advanced the time by dt > 0.
C6_Witness ==
    /\ Len(events) >= 1
    /\ timeline.index = Len(events)
    /\ lastDt > 0
    /\ PrefixDue(Len(events) - 1, timeline.time - lastDt)

\* ------------------------------------------------------- life specification
\*
\* update_player and update_enemy, each run once per frame.  The two systems
\* share no data but the existence of the player: a despawn either of them
\* queues is applied at the end of the stage, so before the next run of
\* either.  Each action is one run of a system followed by the application
\* of the commands it queued.  The DamageEvents a run reads are an input:
\* whatever detect_collisions sent since the reader's previous run.

InitLife ==
    /\ events \in FrameEventLists
    /\ timeline = TimelineDefault
    /\ lastDt = -1
    /\ spawnLog = <<>>
    /\ created = <<>>
    /\ diags = <<>>
    /\ reference = [called |-> FALSE, timeline |-> TimelineDefault,
                    spawnLog |-> <<>>]
    /\ InitWorld

\* One run of the update_player system.  With no player entity it returns at
\* once.
UpdatePlayer(damage_events) ==
    /\ ~panicked
    /\ IF ~player.exists
       THEN /\ acts' = [acts EXCEPT ![PlayerEntity] = NoActs]
            /\ UNCHANGED <<player, cumDamage, deaths>>
       ELSE LET r == update_player(player, damage_events)
                addressed == SumDamage(damage_events, PlayerEntity)
            IN  /\ player' = [r.player EXCEPT !.exists = ~r.despawn]
                /\ acts' = [acts EXCEPT ![PlayerEntity] =
                              [queried |-> TRUE, addressed |-> addressed,
                               damage |-> r.damage, sent |-> r.sent,
                               update |-> r.update,
                               despawn |-> IF r.despawn THEN 1 ELSE 0,
                               before |-> player.remain_life,
                               after |-> r.player.remain_life]]
                /\ cumDamage' = [cumDamage EXCEPT ![PlayerEntity] = @ + addressed]
                /\ deaths' = [deaths EXCEPT ![PlayerEntity] =
                                @ + (IF r.despawn THEN 1 ELSE 0)]
    /\ UNCHANGED <<events, timeline, seqVars, enemies, panicked, auxVars>>

\* One run of the update_enemy system: the timeline, then the loop over the
\* enemies in the order the query yields them.
UpdateEnemy(dt, damage_events, order) ==
    /\ ~panicked
    /\ timeline.time + dt <= MaxFrameTime
    /\ LET t == execute_timeline(timeline, dt)
           sp == spawn_all(t.calls)
           st == update_enemy_loop(order, damage_events,
                    [enemies |-> enemies, despawn |-> {},
                     acts |-> [e \in Entities |->
                                 IF e \in DOMAIN enemies
                                 THEN [NoActs EXCEPT
                                         !.queried = TRUE,
                                         !.addressed = SumDamage(damage_events, e),
                                         !.before = enemies[e].remain_life,
                                         !.after = enemies[e].remain_life]
                                 ELSE NoActs],
                     panicked |-> FALSE])
       IN  /\ timeline' = t.timeline
           /\ lastDt' = dt
           /\ spawnLog' = spawnLog \o t.calls
           /\ created' = created \o sp.enemies
           /\ diags' = diags \o sp.diags
           /\ enemies' = ApplyCommands(st.enemies,
                            [spawn |-> sp.enemies, despawn |-> st.despawn])
           /\ acts' = [st.acts EXCEPT ![PlayerEntity] = acts[PlayerEntity]]
           /\ deaths' = [e \in Entities |->
                           deaths[e] + (IF e \in st.despawn THEN 1 ELSE 0)]
           /\ panicked' = st.panicked
    /\ cumDamage' = [e \in Entities |->
                        IF e \in DOMAIN enemies
                        THEN cumDamage[e] + SumDamage(damage_events, e)
                        ELSE cumDamage[e]]
    /\ UNCHANGED <<events, reference, player, auxVars>>

\* The entities a DamageEvent read now may be addressed to: the player and
\* the enemies spawned so far, one despawned since the event was sent
\* included.
Addressable == {PlayerEntity} \cup 1..timeline.index

NextLife ==
    \/ \E damage_events \in DamageBatches(Addressable) :
          UpdatePlayer(damage_events)
    \/ \E dt \in 0..MaxDt, damage_events \in DamageBatches(Addressable),
          order \in Orders(DOMAIN enemies) :
          UpdateEnemy(dt, damage_events, order)

SpecLife == InitLife /\ [][NextLife]_vars

\* ------------------------------------------------------------ life claims

\* The enemy entities the timeline can give rise to.
EnemyEntities == 1..Len(events)

\* max_life of entity e: the player's, or the life of its enemy kind.
Life(e) ==
    IF e = PlayerEntity THEN player.life ELSE Descriptors[events[e].enemy].life

\* Entity e is in the world.
Alive(e) == IF e = PlayerEntity THEN player.exists ELSE e \in DOMAIN enemies

\* remaining_life of an entity of the world.
Remain(e) ==
    IF e = PlayerEntity THEN player.remain_life ELSE enemies[e].remain_life

\* C7: the latest tick did not increase an entity's remaining life (what it
\* subtracted is >= 0); an entity is despawned at most once, only when the
\* cumulative damage addressed to it has reached its max life, and no entity
\* is still in the world after a tick at whose end that damage has reached
\* its max life.
C7_DiesOnceOnFirstLethalTick ==
    ~panicked =>
        \A e \in Entities :
            /\ acts[e].damage >= 0
            /\ deaths[e] <= 1
            /\ deaths[e] = 1 => cumDamage[e] >= Life(e)
            /\ Alive(e) => cumDamage[e] < Life(e)

\* C8: after every tick the remaining life of every entity of the world, and
\* every remaining life sent in an UpdateLifebarsEvent, lies in 0..max_life.
C8_RemainingLifeInRange ==
    \A e \in Entities :
        /\ Alive(e) => Remain(e) \in 0..Life(e)
        /\ \A k \in 1..Len(acts[e].sent) :
              acts[e].sent[k].remain_life \in 0..Life(e)

\* C9: in the tick where an entity's remaining life becomes <= 0 it is
\* despawned without its move/fire code running, it leaves the world, it is
\* never despawned again, and in every later tick nothing is done with it: no
\* damage, no notification, no motion or fire.
C9_DeadIsTerminal ==
    \A e \in Entities :
        /\ acts[e].despawn > 0 => (acts[e].update = 0 /\ acts[e].despawn = 1)
        /\ deaths[e] <= 1
        /\ deaths[e] > 0 => ~Alive(e)
        /\ (deaths[e] > 0 /\ acts[e].despawn = 0) => acts[e] = NoActs

\* C9 witness: an enemy killed by damage in an earlier tick was left alone by
\* the latest tick, in which another enemy took damage and was updated.
C9_Witness ==
    \E e1, e2 \in EnemyEntities :
        /\ deaths[e1] = 1 /\ cumDamage[e1] >= Life(e1)
        /\ acts[e1] = NoActs
        /\ acts[e2].queried /\ acts[e2].damage > 0 /\ acts[e2].update = 1

\* C10: in a tick that completes, every enemy still alive after the damage
\* addressed to it had that damage subtracted and its controller updated
\* exactly once, whatever happened to the other enemies.
C10_SurvivorsHandled ==
    ~panicked =>
        \A e \in DOMAIN enemies :
            (acts[e].queried
                /\ enemies[e].remain_life + acts[e].damage - acts[e].addressed > 0)
            => (acts[e].damage = acts[e].addressed /\ acts[e].update = 1)

\* --------------------------------------------------- collision specification
\*
\* The bodies of the physics world with the CollisionLayers the code gives
\* them, and the detect_collisions system over the CollisionEvents the
\* physics plugin emits: only for two bodies each of whose groups is in the
\* other's masks.

\* Entity ids of the bullets PlayerController::spawn_bullet and
\* FireTagContext::fire spawn: two of each owner can be in the world.
PlayerBulletIds == {101, 102}
EnemyBulletIds == {201, 202}

\* The player's body (game_setup) and an enemy's (EnemyManager::spawn).
PlayerBody ==
    [entity |-> PlayerEntity, group |-> "Player",
     masks |-> {"World", "Enemy", "EnemyBullet"}]

EnemyBody(e) ==
    [entity |-> e, group |-> "Enemy",
     masks |-> {"World", "Player", "PlayerBullet"}]

\* spawn_bullet giving the bullet the layers of an enemy bullet.
spawn_bullet_as_enemy(id) ==
    [entity |-> id, group |-> "EnemyBullet", masks |-> {"World", "Player"}]

\* PlayerController::spawn_bullet: the body of the bullet it spawns.
spawn_bullet(id) ==
    [entity |-> id, group |-> "PlayerBullet", masks |-> {"World", "Enemy"}]

\* FireTagContext::fire: the body of the bullet it spawns.
fire(id) ==
    [entity |-> id, group |-> "EnemyBullet", masks |-> {"World", "Player"}]

\* CollisionLayers::interacts_with: each body's group is in the other's masks.
Interacts(a, b) == a.group \in b.masks /\ b.group \in a.masks

\* The CollisionEvents the physics plugin can emit for the current bodies.
CollisionEvent ==
    { ev \in [kind : {"Started", "Stopped"}, data1 : bodies, data2 : bodies] :
        ev.data1 # ev.data2 /\ Interacts(ev.data1, ev.data2) }

CollisionBatches == UNION { [1..m -> CollisionEvent] : m \in 0..MaxCollisions }

\* detect_collisions treating a Stopped event as it treats a Started one.
detect_collision_any_kind(event) ==
    LET d1 == event.data1
        d2 == event.data2
        dmg(d, g) == IF d.group = g
                     THEN << [entity |-> d.entity, damage |-> 1] >>
                     ELSE <<>>
        gone(d, g) == IF d.group = g THEN {d.entity} ELSE {}
    IN  [event |-> event,
         damage |-> dmg(d1, "Player") \o dmg(d2, "Player")
                    \o dmg(d1, "Enemy") \o dmg(d2, "Enemy"),
         despawn |-> gone(d1, "PlayerBullet") \cup gone(d2, "PlayerBullet")
                     \cup gone(d1, "EnemyBullet") \cup gone(d2, "EnemyBullet")]

\* What detect_collisions does for one collision event: the DamageEvents it
\* sends, in order, and the entities it asks to despawn.
detect_collision(event) ==
    IF event.kind = "Started"
    THEN LET d1 == event.data1
             d2 == event.data2
             dmg(d, g) == IF d.group = g
                          THEN << [entity |-> d.entity, damage |-> 1] >>
                          ELSE <<>>
             gone(d, g) == IF d.group = g THEN {d.entity} ELSE {}
         IN  [event |-> event,
              damage |-> dmg(d1, "Player") \o dmg(d2, "Player")
                         \o dmg(d1, "Enemy") \o dmg(d2, "Enemy"),
              despawn |-> gone(d1, "PlayerBullet") \cup gone(d2, "PlayerBullet")
                          \cup gone(d1, "EnemyBullet") \cup gone(d2, "EnemyBullet")]
    ELSE [event |-> event, damage |-> <<>>, despawn |-> {}]

\* detect_collisions over the collision events of one run, in order.
detect_collisions(batch) == [k \in 1..Len(batch) |-> detect_collision(batch[k])]

InitCollisions ==
    /\ events = <<>>
    /\ InitSeqVars
    /\ InitLifeVars
    /\ InitFire
    /\ InitCtl
    /\ InitHud
    /\ bodies = {PlayerBody, EnemyBody(1)}
    /\ hits = <<>>

\* The player fires: spawn_bullet adds a bullet body.
SpawnPlayerBullet(id) ==
    /\ \A b \in bodies : b.entity # id
    /\ bodies' = bodies \cup {spawn_bullet(id)}
    /\ UNCHANGED <<events, timeline, seqVars, lifeVars, hits, fireVars, ctlVars, hudVars>>

\* An enemy fires: FireTagContext::fire adds a bullet body.
SpawnEnemyBullet(id) ==
    /\ \A b \in bodies : b.entity # id
    /\ bodies' = bodies \cup {fire(id)}
    /\ UNCHANGED <<events, timeline, seqVars, lifeVars, hits, fireVars, ctlVars, hudVars>>

\* One run of the detect_collisions system; the despawns it queued are
\* applied at the end of the stage.
DetectCollisions(batch) ==
    /\ hits' = detect_collisions(batch)
    /\ bodies' = { b \in bodies :
                     \A k \in 1..Len(batch) :
                        b.entity \notin detect_collision(batch[k]).despawn }
    /\ UNCHANGED <<events, timeline, seqVars, lifeVars, fireVars, ctlVars, hudVars>>

NextCollisions ==
    \/ \E id \in PlayerBulletIds : SpawnPlayerBullet(id)
    \/ \E id \in EnemyBulletIds : SpawnEnemyBullet(id)
    \/ \E batch \in CollisionBatches : DetectCollisions(batch)

SpecCollisions == InitCollisions /\ [][NextCollisions]_vars

\* ---------------------------------------------------------- collision claims

\* The entities one handled collision involves.
Involved(h) == {h.event.data1.entity, h.event.data2.entity}

\* The entities the DamageEvents of one handled collision address.
Damaged(h) == { h.damage[k].entity : k \in 1..Len(h.damage) }

\* C11: a collision involving a bullet spawned by the player only produces
\* DamageEvents for Enemy-layer entities, never for the player; a collision
\* involving a bullet fired by an enemy only produces DamageEvents for the
\* player, never for an enemy.
C11_NoFriendlyFire ==
    \A k \in 1..Len(hits) :
        LET h == hits[k]
            groupOf(e) == IF h.event.data1.entity = e
                          THEN h.event.data1.group ELSE h.event.data2.group
        IN  /\ Involved(h) \cap PlayerBulletIds # {} =>
                 \A e \in Damaged(h) : e # PlayerEntity /\ groupOf(e) = "Enemy"
            /\ Involved(h) \cap EnemyBulletIds # {} =>
                 \A e \in Damaged(h) : e = PlayerEntity /\ groupOf(e) = "Player"

\* C11 witness: a player bullet hit an enemy, which was damaged, while an
\* enemy bullet was in the world; the bullet that hit is gone.
C11_Witness ==
    /\ \E k \in 1..Len(hits) :
          /\ Involved(hits[k]) \cap PlayerBulletIds # {}
          /\ Damaged(hits[k]) = {1}
          /\ hits[k].despawn \subseteq PlayerBulletIds /\ hits[k].despawn # {}
          /\ \A b \in bodies : b.entity \notin hits[k].despawn
    /\ \E b \in bodies : b.entity \in EnemyBulletIds

\* ------------------------------------------------------- enemy controller
\*
\* One enemy's EnemyController over a sequence of update() updates, each with
\* the dt of the frame and the progress (in percent) its Animator reports.

\* Animator progress values: around the 30 % and 100 % thresholds.
Progress == {0, 29, 30, 99, 100}

\* do_motion returning StartFireTag again in the Stay phase whenever the
\* animation is complete.
do_motion_stay_fires(m, animator, progress) ==
    IF m.kind = "EnterStay"
    THEN CASE m.phase = "Idle" ->
                [motion |-> [m EXCEPT !.phase = "Enter"], animator |-> "Playing",
                 result |-> "DoNothing"]
           [] m.phase = "Enter" ->
                IF progress >= 100
                THEN [motion |-> [m EXCEPT !.phase = "Stay"],
                      animator |-> "Playing", result |-> "StartFireTag"]
                ELSE [motion |-> m, animator |-> animator, result |-> "DoNothing"]
           [] OTHER ->
                [motion |-> m, animator |-> animator,
                 result |-> IF progress >= 100 THEN "StartFireTag" ELSE "DoNothing"]
    ELSE IF animator = "Paused"
         THEN [motion |-> m, animator |-> "Playing", result |-> "DoNothing"]
         ELSE IF ~m.has_fired /\ progress >= 30
              THEN [motion |-> [m EXCEPT !.has_fired = TRUE],
                    animator |-> animator, result |-> "StartFireTag"]
              ELSE [motion |-> m, animator |-> animator, result |-> "DoNothing"]

\* do_motion with a FlyByMotion that never sets has_fired.
do_motion_nolatch(m, animator, progress) ==
    IF m.kind = "EnterStay"
    THEN CASE m.phase = "Idle" ->
                [motion |-> [m EXCEPT !.phase = "Enter"], animator |-> "Playing",
                 result |-> "DoNothing"]
           [] m.phase = "Enter" ->
                IF progress >= 100
                THEN [motion |-> [m EXCEPT !.phase = "Stay"],
                      animator |-> "Playing", result |-> "StartFireTag"]
                ELSE [motion |-> m, animator |-> animator, result |-> "DoNothing"]
           [] OTHER ->
                [motion |-> m, animator |-> animator, result |-> "DoNothing"]
    ELSE IF animator = "Paused"
         THEN [motion |-> m, animator |-> "Playing", result |-> "DoNothing"]
         ELSE IF ~m.has_fired /\ progress >= 30
              THEN [motion |-> m, animator |-> animator, result |-> "StartFireTag"]
              ELSE [motion |-> m, animator |-> animator, result |-> "DoNothing"]

\* EnterStayMotion::do_motion and FlyByMotion::do_motion: the pattern and the
\* animator state after the call, and the MotionResult.
do_motion(m, animator, progress) ==
    IF m.kind = "EnterStay"
    THEN CASE m.phase = "Idle" ->
                [motion |-> [m EXCEPT !.phase = "Enter"], animator |-> "Playing",
                 result |-> "DoNothing"]
           [] m.phase = "Enter" ->
                IF progress >= 100
                THEN [motion |-> [m EXCEPT !.phase = "Stay"],
                      animator |-> "Playing", result |-> "StartFireTag"]
                ELSE [motion |-> m, animator |-> animator, result |-> "DoNothing"]
           [] OTHER ->
                [motion |-> m, animator |-> animator, result |-> "DoNothing"]
    ELSE IF animator = "Paused"
         THEN [motion |-> m, animator |-> "Playing", result |-> "DoNothing"]
         ELSE IF ~m.has_fired /\ progress >= 30
              THEN [motion |-> [m EXCEPT !.has_fired = TRUE],
                    animator |-> animator, result |-> "StartFireTag"]
              ELSE [motion |-> m, animator |-> animator, result |-> "DoNothing"]

\* update() executing the fire tag whether started or not.
EnemyController_update_always(c, dt, progress) ==
    LET r == do_motion(c.motion_pattern, c.animator, progress)
        started == c.fire_tag_started \/ r.result = "StartFireTag"
        x == execute(c.fire_tag, dt)
    IN  [controller |-> [c EXCEPT !.motion_pattern = r.motion,
                                  !.animator = r.animator,
                                  !.fire_tag_started = started,
                                  !.fire_tag = x.tag],
         result |-> r.result,
         executed |-> 1,
         bullets |-> x.bullets]

\* update() running the fire tag before the motion pattern.
EnemyController_update_fire_first(c, dt, progress) ==
    LET x == IF c.fire_tag_started THEN execute(c.fire_tag, dt)
             ELSE [tag |-> c.fire_tag, bullets |-> <<>>]
        r == do_motion(c.motion_pattern, c.animator, progress)
        started == c.fire_tag_started \/ r.result = "StartFireTag"
    IN  [controller |-> [c EXCEPT !.motion_pattern = r.motion,
                                  !.animator = r.animator,
                                  !.fire_tag_started = started,
                                  !.fire_tag = x.tag],
         result |-> r.result,
         executed |-> IF c.fire_tag_started THEN 1 ELSE 0,
         bullets |-> x.bullets]

\* EnemyController::update: the motion pattern, then the fire tag when
\* started.  `executed` counts the fire_tag.execute updates made.
EnemyController_update(c, dt, progress) ==
    LET r == do_motion(c.motion_pattern, c.animator, progress)
        started == c.fire_tag_started \/ r.result = "StartFireTag"
        x == IF started THEN execute(c.fire_tag, dt)
             ELSE [tag |-> c.fire_tag, bullets |-> <<>>]
    IN  [controller |-> [c EXCEPT !.motion_pattern = r.motion,
                                  !.animator = r.animator,
                                  !.fire_tag_started = started,
                                  !.fire_tag = x.tag],
         result |-> r.result,
         executed |-> IF started THEN 1 ELSE 0,
         bullets |-> x.bullets]

\* A call of do_motion at which the pattern's condition to start firing is
\* met: Enter phase with the animation complete, or a playing fly-by past
\* 30 %.
Eligible(c, progress) ==
    IF c.motion_pattern.kind = "EnterStay"
    THEN c.motion_pattern.phase = "Enter" /\ progress >= 100
    ELSE c.animator = "Playing" /\ progress >= 30

\* The (motion, fire) combinations a descriptor of the database can name.
ControllerDescriptors ==
    { [name |-> "enemy", life |-> GruntLife, is_boss |-> FALSE,
       fire_tag_kind |-> f, motion_pattern_kind |-> m, bullet_kind |-> "WhiteBall"] :
        f \in {"Spiral", "AimBurst"}, m \in {"EnterStay", "FlyBy"} }

InitController ==
    /\ events = <<>>
    /\ InitSeqVars
    /\ InitLifeVars
    /\ InitColl
    /\ InitFire
    /\ InitHud
    /\ \E d \in ControllerDescriptors : ctl = EnemyControllerNew(d, 0)
    /\ last = NoUpdate
    /\ updates = 0
    /\ starts = 0
    /\ eligible = 0

\* One controller.update(dt, ...) with the animator at `progress`.
Update(dt, progress) ==
    /\ updates < MaxUpdates
    /\ LET u == EnemyController_update(ctl, dt, progress)
       IN  /\ ctl' = u.controller
           /\ last' = [before |-> ctl, dt |-> dt, progress |-> progress,
                       result |-> u.result, executed |-> u.executed,
                       bullets |-> u.bullets]
           /\ starts' = starts + (IF u.result = "StartFireTag" THEN 1 ELSE 0)
    /\ updates' = updates + 1
    /\ eligible' = eligible + (IF Eligible(ctl, progress) THEN 1 ELSE 0)
    /\ UNCHANGED <<events, timeline, seqVars, lifeVars, collVars, fireVars, hudVars>>

\* Something other than the controller pauses the enemy's Animator.
PauseAnimator ==
    /\ ctl.animator = "Playing"
    /\ ctl' = [ctl EXCEPT !.animator = "Paused"]
    /\ UNCHANGED <<events, timeline, seqVars, lifeVars, collVars, fireVars, hudVars,
                   last, updates, starts, eligible>>

NextController ==
    \/ \E dt \in 0..MaxFireDt, progress \in Progress : Update(dt, progress)
    \/ PauseAnimator

SpecController == InitController /\ [][NextController]_vars

\* --------------------------------------------------------- controller claims

\* Position of an EnterStay phase in Idle -> Enter -> Stay.
PhaseRank(phase) == CASE phase = "Idle" -> 0 [] phase = "Enter" -> 1 [] OTHER -> 2

\* C12: on an EnterStayMotion, a do_motion call returns StartFireTag exactly
\* when it is made in the Enter phase with progress >= 100 %; there is at most
\* one such call, so StartFireTag was returned once if there was one and never
\* otherwise; each call leaves the phase where it is or moves it one step
\* along Idle -> Enter -> Stay.
C12_EnterStayStartsOnce ==
    ctl.motion_pattern.kind = "EnterStay" =>
        /\ eligible <= 1
        /\ starts = eligible
        /\ (ctl.motion_pattern.phase = "Stay") = (starts = 1)
        /\ updates > 0 =>
             LET before == last.before.motion_pattern.phase
                 after == ctl.motion_pattern.phase
             IN  /\ (last.result = "StartFireTag")
                       = (before = "Enter" /\ last.progress >= 100)
                 /\ PhaseRank(after) >= PhaseRank(before)
                 /\ PhaseRank(after) <= PhaseRank(before) + 1
                 /\ before = "Idle" => after = "Enter"
                 /\ before = "Stay" => after = "Stay"

\* C12 witness: an Enter call below 100 % did nothing, a later one at 100 %
\* started the fire tag, and a call in the Stay phase at 100 % has followed.
C12_Witness ==
    /\ ctl.motion_pattern.kind = "EnterStay"
    /\ updates >= 4
    /\ starts = 1
    /\ last.before.motion_pattern.phase = "Stay"
    /\ last.progress = 100
    /\ last.result = "DoNothing"

\* C13: on a FlyByMotion, StartFireTag is returned at most once, and exactly
\* by the first call made with the animator Playing and progress >= 30 %; a
\* call with the animator Paused (the first call is one) returns DoNothing
\* and starts the animator.
C13_FlyByStartsOnce ==
    ctl.motion_pattern.kind = "FlyBy" =>
        /\ starts <= 1
        /\ starts = (IF eligible > 0 THEN 1 ELSE 0)
        /\ ctl.motion_pattern.has_fired = (starts = 1)
        /\ updates = 1 => last.before.animator = "Paused"
        /\ updates > 0 =>
             /\ (last.result = "StartFireTag")
                   = (Eligible(last.before, last.progress) /\ eligible = 1)
             /\ last.before.animator = "Paused" =>
                   /\ last.result = "DoNothing"
                   /\ last.before.motion_pattern = ctl.motion_pattern

\* C13 witness: after StartFireTag was returned once, a later call with the
\* animator Playing and progress >= 30 % returned DoNothing.
C13_Witness ==
    /\ ctl.motion_pattern.kind = "FlyBy"
    /\ starts = 1
    /\ eligible >= 2
    /\ last.before.animator = "Playing"
    /\ last.progress >= 30
    /\ last.result = "DoNothing"

\* ------------------------------------------------------ fire tag executions
\*
\* One fire tag over a sequence of execute() calls, each with the dt of its
\* FireTagContext.

InitSpiral ==
    /\ events = <<>>
    /\ InitSeqVars
    /\ InitLifeVars
    /\ InitColl
    /\ InitCtl
    /\ InitHud
    /\ fire_tag = FireTagSpiralDefault
    /\ shot = [before |-> FireTagSpiralDefault, dt |-> 0, bullets |-> <<>>]
    /\ emitted = 0
    /\ execs = 0
    /\ allLong = TRUE
    /\ lane = NoLane

\* The arms spaced by TAU / (arms_count - 1): the last arm on the first.
ArmAngle_fencepost(base_angle, k) ==
    (base_angle + k * (TAU \div (ArmsCount - 1))) % TAU

\* The angle of arm k of a volley fired from base_angle.
ArmAngle(base_angle, k) == (base_angle + k * (TAU \div ArmsCount)) % TAU

\* The arms a volley fired from base_angle left out: those none of its
\* bullets is on.
SuppressedArms(base_angle, bullets) ==
    { k \in 0..(ArmsCount - 1) :
        \A j \in 1..Len(bullets) : bullets[j].angle # ArmAngle(base_angle, k) }

\* The run of suppressed volleys l after the volley numbered cur_iter,
\* fired from base_angle: a volley that leaves an arm out extends the run
\* the volley before it belonged to, or starts a new run.
lane_after(l, cur_iter, base_angle, bullets) ==
    LET arms == SuppressedArms(base_angle, bullets)
    IN  IF arms = {} THEN l
        ELSE IF l.len > 0 /\ l.start + l.len = cur_iter
             THEN [l EXCEPT !.len = @ + 1, !.arms = @ \cup arms]
             ELSE [start |-> cur_iter, len |-> 1, prev |-> l.start, arms |-> arms]

\* fire_tag.execute() on a FireTagSpiral.
ExecuteSpiral(dt) ==
    /\ LET x == FireTagSpiral_execute(fire_tag, dt)
       IN  /\ fire_tag' = x.tag
           /\ shot' = [before |-> fire_tag, dt |-> dt, bullets |-> x.bullets]
           /\ lane' = IF x.tag.cur_iter # fire_tag.cur_iter
                      THEN lane_after(lane, x.tag.cur_iter,
                                      fire_tag.cur_angle % TAU, x.bullets)
                      ELSE lane
    /\ UNCHANGED <<events, timeline, seqVars, lifeVars, collVars, ctlVars, hudVars,
                   emitted, execs, allLong>>

NextSpiral ==
    \E dt \in 0..MaxFireDt : fire_tag.cur_iter < MaxVolleys /\ ExecuteSpiral(dt)

SpecSpiral == InitSpiral /\ [][NextSpiral]_vars

InitAimBurst ==
    /\ events = <<>>
    /\ InitSeqVars
    /\ InitLifeVars
    /\ InitColl
    /\ InitCtl
    /\ InitFire
    /\ InitHud

\* fire_tag.execute() on a FireTagAimBurst.
ExecuteAimBurst(dt) ==
    /\ execs < MaxExecs
    /\ LET x == FireTagAimBurst_execute(fire_tag, dt)
       IN  /\ fire_tag' = x.tag
           /\ shot' = [before |-> fire_tag, dt |-> dt, bullets |-> x.bullets]
           /\ emitted' = emitted + Len(x.bullets)
    /\ execs' = execs + 1
    /\ allLong' = (allLong /\ dt >= fire_tag.fire_delay)
    /\ UNCHANGED <<events, timeline, seqVars, lifeVars, collVars, ctlVars, hudVars,
                   lane>>

NextAimBurst == \E dt \in 0..MaxFireDt : ExecuteAimBurst(dt)

SpecAimBurst == InitAimBurst /\ [][NextAimBurst]_vars

\* ----------------------------------------------------------- fire tag claims

\* The latest execute() fired a volley.
Volley == fire_tag.cur_iter = shot.before.cur_iter + 1

\* The arms the bullets of the latest volley were fired on.
FiredArms ==
    { k \in 0..(ArmsCount - 1) :
        \E j \in 1..Len(shot.bullets) :
            shot.bullets[j].angle = ArmAngle(shot.before.cur_angle % TAU, k) }

\* C14: a volley of the 6-arm spiral fires one bullet per arm, in arm order,
\* at base_angle + k * TAU/6 (mod TAU), on all 6 arms, except that a volley
\* whose iteration number (cur_iter, counted when the volley fires) is 0..4
\* modulo 25 leaves out exactly one arm and fires 5 bullets; a call that
\* fires no volley fires nothing.
C14_SpiralVolley ==
    IF Volley
    THEN /\ Len(shot.bullets) = Cardinality(FiredArms)
         /\ \A j \in 1..Len(shot.bullets) :
               \E k \in 0..(ArmsCount - 1) :
                   shot.bullets[j].angle = ArmAngle(shot.before.cur_angle % TAU, k)
         /\ \A j \in 1..(Len(shot.bullets) - 1) :
               \E k \in 0..(ArmsCount - 2), d \in 1..2 :
                   /\ shot.bullets[j].angle = ArmAngle(shot.before.cur_angle % TAU, k)
                   /\ shot.bullets[j + 1].angle
                         = ArmAngle(shot.before.cur_angle % TAU, k + d)
         /\ Cardinality(FiredArms)
               = (IF fire_tag.cur_iter % 25 \in 0..4 THEN ArmsCount - 1 ELSE ArmsCount)
    ELSE shot.bullets = <<>>

\* C14 witness: volley 29, the last of the second run of suppressed volleys,
\* fired 5 bullets.
C14_Witness ==
    /\ Volley
    /\ fire_tag.cur_iter = 29
    /\ Len(shot.bullets) = 5

\* C15: an aim burst has fired at most bullet_count bullets, as many as
\* cur_iter counts; an execute() made with cur_iter = bullet_count fires
\* nothing and leaves the pattern as it was.
C15_AimBurstBounded ==
    /\ emitted <= fire_tag.bullet_count
    /\ emitted = fire_tag.cur_iter
    /\ (execs > 0 /\ shot.before.cur_iter = shot.before.bullet_count) =>
          /\ shot.bullets = <<>>
          /\ fire_tag = shot.before

\* C15 witness: an execute() with dt >= fire_delay on an exhausted burst.
C15_Witness ==
    /\ execs > 0
    /\ shot.before.cur_iter = shot.before.bullet_count
    /\ shot.dt >= fire_tag.fire_delay
    /\ emitted = fire_tag.bullet_count

\* C16: while every execute() so far had dt >= fire_delay, call number n
\* fired exactly one bullet if n <= bullet_count and none otherwise, so
\* min(n, bullet_count) bullets have been fired after n calls; no call ever
\* fires more than one bullet.
C16_AimBurstOnePerTick ==
    /\ Len(shot.bullets) <= 1
    /\ allLong =>
          /\ emitted = (IF execs <= fire_tag.bullet_count
                        THEN execs ELSE fire_tag.bullet_count)
          /\ execs > 0 =>
                Len(shot.bullets) = (IF execs <= fire_tag.bullet_count THEN 1 ELSE 0)

\* C16 witness: bullet_count + 1 calls with dt >= fire_delay: the last one
\* fired nothing, bullet_count bullets were fired before.
C16_Witness ==
    /\ allLong
    /\ execs = fire_tag.bullet_count + 1
    /\ emitted = fire_tag.bullet_count
    /\ shot.bullets = <<>>

\* C17: as long as the motion pattern has not returned StartFireTag,
\* fire_tag_started is false, the fire tag is as spawn() built it, and an
\* update() executes no fire tag, fires no bullet and leaves the fire tag
\* as it was; fire_tag_started is true from the update that got StartFireTag
\* on, and an update that found it true leaves it true.
C17_DormantUntilStarted ==
    /\ ctl.fire_tag_started = (starts > 0)
    /\ starts = 0 =>
          /\ ctl.fire_tag \in {FireTagSpiralDefault, FireTagAimBurstDefault}
          /\ updates > 0 =>
                /\ last.executed = 0
                /\ last.bullets = <<>>
                /\ ctl.fire_tag = last.before.fire_tag
    /\ (updates > 0 /\ last.before.fire_tag_started) => ctl.fire_tag_started

\* C17 witness: three updates without StartFireTag, the latest with a dt
\* that would have fired a bullet.
C17_Witness ==
    /\ starts = 0
    /\ updates >= 3
    /\ last.dt >= ctl.fire_tag.fire_delay
    /\ last.bullets = <<>>

\* C18: an update() whose motion pattern returns StartFireTag executes the
\* fire tag once in that same call, with the call's dt: the fire tag and
\* the bullets after the call are those of execute() on the fire tag it
\* had before; so does every update() that ends with fire_tag_started.
C18_FireInStartTick ==
    updates > 0 =>
        /\ last.result = "StartFireTag" => ~last.before.fire_tag_started
        /\ (last.result = "StartFireTag" \/ last.before.fire_tag_started) =>
              /\ last.executed = 1
              /\ ctl.fire_tag = execute(last.before.fire_tag, last.dt).tag
              /\ last.bullets = execute(last.before.fire_tag, last.dt).bullets

\* C18 witness: the update that got StartFireTag fired bullets.
C18_Witness ==
    /\ updates > 0
    /\ last.result = "StartFireTag"
    /\ last.dt >= ctl.fire_tag.fire_delay
    /\ last.bullets # <<>>

\* ------------------------------------------------------------- lifebar HUD
\*
\* One lifebar HUD over the frames of the game: update_hud with the events
\* of the frame addressed to the HUD, and the animator system between two
\* runs of update_hud.

\* Events one run of update_hud may read for the HUD.
InitLifebarsEvents ==
    {<<>>} \cup { << [colors |-> Colors(n), life_per_bar |-> c] >> :
                    n \in 1..MaxBars, c \in 1..MaxLifePerBar }
ShowLifebarsEvents == {<<>>, << [show |-> TRUE] >>}
UpdateLifebarsEvents ==
    {<<>>} \cup { << [remain_life |-> r] >> :
                    r \in (-1)..(MaxBars * MaxLifePerBar + 1) }

\* LifebarOrientation.
Orientations == {"Horizontal", "Vertical"}

\* A HUD as game_setup and the enemy setup build and spawn it.
SpawnedHud(orientation, life, colors) ==
    LifebarHud_spawn(set_lifebars([LifebarHudDefault EXCEPT
                                       !.orientation = orientation],
                                  life, colors))

\* The HUDs game_setup and the enemy setup spawn.
InitHudSpawned ==
    /\ events = <<>>
    /\ InitSeqVars
    /\ InitLifeVars
    /\ InitColl
    /\ InitFire
    /\ InitCtl
    /\ \E n \in 1..MaxBars, c \in 1..MaxLifePerBar, o \in Orientations :
          hud = SpawnedHud(o, c, Colors(n))
    /\ cycle = <<>>
    /\ reinit = FALSE
    /\ crashed = FALSE
    /\ applied = NoLifeUpdate
    /\ hide = "none"
    /\ run = NoRun
    /\ InitHuds

\* One run of update_hud.
UpdateHud(init_events, show_events, update_events) ==
    /\ ~crashed
    /\ LET u == update_hud(hud, init_events, show_events, update_events)
           shown == u.entered # <<>> /\ u.entered[1] = Phase("SlideIn")
           steps == [i \in 1..Len(u.entered) |->
                        [fill_seq |-> u.entered[i], completed |-> u.completed]]
       IN  /\ hud' = u.hud
           /\ crashed' = u.panicked
           /\ cycle' = IF shown THEN steps ELSE cycle \o steps
           /\ reinit' = (~shown /\ (reinit \/ (init_events # <<>>
                                                /\ hud.fill_seq # Phase("Idle"))))
    /\ hide' = (IF hide = "requested" THEN "processed" ELSE "none")
    /\ UNCHANGED <<events, timeline, seqVars, lifeVars, collVars, fireVars, ctlVars,
                   applied, hudsVars, run>>

\* Half of an animation's duration passes.
tick(animator) ==
    IF animator.state = "Playing" /\ animator.tween # "None"
       /\ animator.progress < 100
    THEN [animator EXCEPT !.progress = @ + 50]
    ELSE animator

\* The animator system on the two Animators of a HUD: the fill tween's
\* TransformScaleLens scales the over bar from 0 to 1 along the fill axis.
tick_animators(h) ==
    LET over_animator == tick(h.over_animator)
    IN  [h EXCEPT !.animator = tick(@),
                  !.over_animator = over_animator,
                  !.over_scale = IF over_animator # h.over_animator
                                    /\ over_animator.tween = "Fill"
                                 THEN OverScale(h.orientation,
                                                over_animator.progress)
                                 ELSE @]

\* The animator system of the tweening plugin between two runs of
\* update_hud.
TickAnimators ==
    /\ ~crashed
    /\ hud' = tick_animators(hud)
    /\ hud' # hud
    /\ UNCHANGED <<events, timeline, seqVars, lifeVars, collVars, fireVars, ctlVars,
                   cycle, reinit, crashed, applied, hide, hudsVars, run>>

\* Something asks for the Ready HUD to be hidden.  update_hud reads
\* InitLifebarsEvent, ShowLifebarsEvent and UpdateLifebarsEvent only, and
\* no other system writes fill_seq: the request changes nothing of the HUD.
HideRequest ==
    /\ ~crashed
    /\ hud.fill_seq = Phase("Ready")
    /\ hide # "requested"
    /\ hide' = "requested"
    /\ UNCHANGED <<events, timeline, seqVars, lifeVars, collVars, fireVars, ctlVars,
                   hud, cycle, reinit, crashed, applied, hudsVars, run>>

NextHud ==
    \/ \E init_events \in InitLifebarsEvents, show_events \in ShowLifebarsEvents,
          update_events \in UpdateLifebarsEvents :
          UpdateHud(init_events, show_events, update_events)
    \/ TickAnimators
    \/ HideRequest

SpecHud == InitHudSpawned /\ [][NextHud]_vars

\* ------------------------------------------------------- lifebar HUD claims

\* The show cycle of a lifebar with n segments.
ShowCycle(n) ==
    <<Phase("SlideIn")>> \o [i \in 1..n |-> FillUp(i - 1)] \o <<Phase("Ready")>>

\* C19: in a show cycle during which the lifebars were not set again, the
\* phases entered since the accepted show are SlideIn, FillUp(0), FillUp(1),
\* ... in this order, each once, up to the current phase; Ready is entered
\* after FillUp(n - 1) for the n lifebars of the HUD and no earlier; and each
\* phase after SlideIn was entered by a run of update_hud that found an
\* animation completed.
C19_ShowCycle ==
    (cycle # <<>> /\ ~reinit) =>
        /\ Len(cycle) <= Len(hud.lifebars) + 2
        /\ \A i \in 1..Len(cycle) :
              /\ cycle[i].fill_seq = ShowCycle(Len(hud.lifebars))[i]
              /\ i > 1 => cycle[i].completed
        /\ cycle[Len(cycle)].fill_seq = hud.fill_seq

\* C19 witness: a HUD of three lifebars has reached Ready.
C19_Witness ==
    /\ ~reinit
    /\ Len(hud.lifebars) = 3
    /\ hud.fill_seq = Phase("Ready")
    /\ Len(cycle) = 5

\* C20: while fill_seq is Ready, hud.index is an index into hud.lifebars.
C20_IndexValidWhenReady ==
    hud.fill_seq = Phase("Ready") => hud.index \in 0..(Len(hud.lifebars) - 1)

\* ------------------------------------------------------ life updates in Ready
\*
\* A HUD that has gone through its show cycle, given one life update per run
\* of update_hud and no other event.

\* The HUD h after its animations have completed and update_hud has run,
\* again and again until it is Ready.
RECURSIVE run_to_ready(_)
run_to_ready(h) ==
    IF h.fill_seq = Phase("Ready") THEN h
    ELSE run_to_ready(
             update_hud(tick_animators(tick_animators(h)), <<>>, <<>>, <<>>).hud)

\* A spawned HUD shown and run until Ready.
ReadyHud(orientation, life, colors) ==
    run_to_ready(update_hud(SpawnedHud(orientation, life, colors),
                            <<>>, << [show |-> TRUE] >>, <<>>).hud)

\* Life per lifebar of the HUDs drawn: small ones, and 100 as for the
\* player's lifebars.
LifePerBarValues == (1..MaxLifePerBar) \cup {100}

\* remain_life values of the updates drawn.
RemainLifeValues == ((-1)..(MaxBars * MaxLifePerBar + 1)) \cup {250}

InitReadyHud ==
    /\ events = <<>>
    /\ InitSeqVars
    /\ InitLifeVars
    /\ InitColl
    /\ InitFire
    /\ InitCtl
    /\ \E n \in 1..MaxBars, c \in LifePerBarValues, o \in Orientations :
          hud = ReadyHud(o, c, Colors(n))
    /\ cycle = <<>>
    /\ reinit = FALSE
    /\ crashed = FALSE
    /\ applied = NoLifeUpdate
    /\ hide = "none"
    /\ run = NoRun
    /\ InitHuds

\* One run of update_hud with one UpdateLifebarsEvent for the HUD.
ApplyLifeUpdate(remain_life) ==
    /\ ~crashed
    /\ LET u == update_hud(hud, <<>>, <<>>, << [remain_life |-> remain_life] >>)
       IN  /\ hud' = u.hud
           /\ crashed' = u.panicked
    /\ applied' = [before |-> hud, remain_life |-> remain_life, any |-> TRUE]
    /\ UNCHANGED <<events, timeline, seqVars, lifeVars, collVars, fireVars, ctlVars,
                   cycle, reinit, hide, hudsVars, run>>

NextReadyHud == \E remain_life \in RemainLifeValues : ApplyLifeUpdate(remain_life)

SpecReadyHud == InitReadyHud /\ [][NextReadyHud]_vars

\* The over bar's scale along the fill axis, and across it.
FillScale(h) == IF h.orientation = "Horizontal" THEN h.over_scale.x ELSE h.over_scale.y
CrossScale(h) == IF h.orientation = "Horizontal" THEN h.over_scale.y ELSE h.over_scale.x

\* The fractional part of r / c in percent, rounded toward zero: f32::fract
\* keeps the sign of r.
FractPercent(r, c) ==
    IF r >= 0 THEN ((r % c) * 100) \div c ELSE -((((-r) % c) * 100) \div c)

SlideOutNeverEntered == hud.fill_seq.phase # "SlideOut"

\* C22: a hide request made while the HUD is Ready moves it to SlideOut in
\* the next run of update_hud (from where the completed slide returns it to
\* Idle for a new show cycle).
C22_HideLeavesReady ==
    hide = "processed" => hud.fill_seq = Phase("SlideOut")

\* ------------------------------------------- several HUDs in one update_hud

\* Lifebars and life per bar of the HUDs of SpecHuds.
HudsBars == 2
HudsLifePerBar == 1

\* The events of a sequence addressed to entity e, in order.
ForEntity(evs, e) == SelectSeq(evs, LAMBDA ev : ev.entity = e)

\* Every sequence of at most one event drawn from set S.
AtMostOne(S) == {<<>>} \cup { <<ev>> : ev \in S }

\* ShowLifebarsEvents and UpdateLifebarsEvents carrying their entity.
HudsShowEvents == AtMostOne({ [entity |-> e, show |-> TRUE] : e \in HudEntities })
HudsUpdateEvents ==
    AtMostOne({ [entity |-> e, remain_life |-> r] :
                  e \in HudEntities, r \in 0..(HudsBars * HudsLifePerBar - 1) })

\* HUD h reaches "Update lifetime bars from damage events" in phase Ready:
\* the run calls update_events.iter() for it.
ReadsUpdates(h, init_events, show_events) ==
    LET h2 == show_lifebars(init_lifebars(h, init_events), show_events)
    IN  fill_seq_transition([h2 EXCEPT !.force_update = FALSE]).hud.fill_seq
            = Phase("Ready")

\* update_hud's `for ... in hud_query.iter_mut()` over the HUDs in `order`.
\* st.reader holds the events the one EventReader<UpdateLifebarsEvent> of
\* the system has not read: update_events.iter() yields them all and leaves
\* none unread, whichever of them the filter keeps.
RECURSIVE update_hud_loop(_, _, _, _)
update_hud_loop(order, init_events, show_events, st) ==
    IF order = <<>> \/ st.panicked
    THEN st
    ELSE LET e == Head(order)
             reads == ReadsUpdates(st.huds[e], ForEntity(init_events, e),
                                   ForEntity(show_events, e))
             u == update_hud(st.huds[e], ForEntity(init_events, e),
                             ForEntity(show_events, e),
                             IF reads THEN ForEntity(st.reader, e) ELSE <<>>)
         IN  update_hud_loop(Tail(order), init_events, show_events,
                 [huds |-> [st.huds EXCEPT ![e] = u.hud],
                  reader |-> IF reads THEN <<>> ELSE st.reader,
                  panicked |-> u.panicked])

\* The player's and the boss's HUD as spawned, no event sent yet.
InitHudsSpawned ==
    /\ events = <<>>
    /\ InitSeqVars
    /\ InitLifeVars
    /\ InitColl
    /\ InitFire
    /\ InitCtl
    /\ hud = LifebarHudDefault
    /\ cycle = <<>>
    /\ reinit = FALSE
    /\ crashed = FALSE
    /\ applied = NoLifeUpdate
    /\ hide = "none"
    /\ run = NoRun
    /\ huds = [e \in HudEntities |->
                 SpawnedHud(IF e = PlayerLifebar THEN "Vertical" ELSE "Horizontal",
                            HudsLifePerBar, Colors(HudsBars))]
    /\ expected = huds
    /\ arrived = <<>>
    /\ stale = <<>>
    /\ unread = <<>>

\* One run of update_hud over all the HUDs, the query yielding them in
\* `order`.  Events sent in a tick stay readable in the next tick.
UpdateHuds(order, show_events, update_events) ==
    /\ ~crashed
    /\ LET st == update_hud_loop(order, <<>>, show_events,
                                 [huds |-> huds,
                                  reader |-> unread \o update_events,
                                  panicked |-> FALSE])
       IN  /\ huds' = st.huds
           /\ crashed' = st.panicked
           /\ unread' = IF st.reader = <<>> THEN <<>> ELSE update_events
    /\ expected' = [e \in HudEntities |->
                      update_hud(huds[e], <<>>, ForEntity(show_events, e),
                                 ForEntity(update_events, e)).hud]
    /\ arrived' = update_events
    /\ stale' = unread
    /\ UNCHANGED <<events, timeline, seqVars, lifeVars, collVars, fireVars, ctlVars,
                   hud, cycle, reinit, applied, hide, run>>

\* The animator system between two runs of update_hud, on every HUD.
TickAnimatorsHuds ==
    /\ ~crashed
    /\ huds' = [e \in HudEntities |-> tick_animators(huds[e])]
    /\ huds' # huds
    /\ expected' = huds'
    /\ arrived' = <<>>
    /\ stale' = <<>>
    /\ UNCHANGED <<events, timeline, seqVars, lifeVars, collVars, fireVars, ctlVars,
                   hud, cycle, reinit, crashed, applied, hide, unread, run>>

NextHuds ==
    \/ \E order \in Orders(HudEntities), show_events \in HudsShowEvents,
          update_events \in HudsUpdateEvents :
          UpdateHuds(order, show_events, update_events)
    \/ TickAnimatorsHuds

SpecHuds == InitHudsSpawned /\ [][NextHuds]_vars

\* Lifebar h was Ready in the tick of the latest run of update_hud.
ReadyInTick(h) == expected[h].fill_seq = Phase("Ready")

\* C23 (first half): a life update addressed to lifebar h that arrives in a
\* tick in which h is Ready is applied to h.
UpdateIsApplied ==
    \A h \in HudEntities :
       (ForEntity(arrived, h) # <<>> /\ ReadyInTick(h)) => huds[h] = expected[h]

\* C23 (second half): a life update changes no lifebar other than the one
\* it is addressed to.
NoOtherLifebarChanged ==
    \A g \in HudEntities :
       (ForEntity(arrived, g) = <<>> /\ ForEntity(stale, g) = <<>>)
           => huds[g] = expected[g]

\* C23: a life update addressed to lifebar h that arrives in a tick in
\* which h is Ready is applied to h and to no other lifebar, however many
\* lifebars exist, whatever their phases and in whichever order update_hud
\* processes them.
C23_UpdateRoutedToItsLifebar == UpdateIsApplied /\ NoOtherLifebarChanged

\* --------------------------------------------------- damage of one tick

\* C24: in a tick that completes, the damage an entity of the world takes
\* is the sum of the DamageEvents addressed to it; when the sum is > 0 it
\* is subtracted from remaining_life and exactly one UpdateLifebarsEvent
\* carrying the new remaining_life is sent; when it is zero remaining_life
\* is unchanged and no UpdateLifebarsEvent is sent.
C24_DamageSummedNotifiedOnce ==
    ~panicked =>
        \A e \in Entities :
            acts[e].queried =>
                /\ acts[e].damage = acts[e].addressed
                /\ acts[e].addressed > 0 =>
                      /\ acts[e].after = acts[e].before - acts[e].addressed
                      /\ Len(acts[e].sent) = 1
                      /\ acts[e].sent[1].remain_life = acts[e].after
                /\ acts[e].addressed = 0 =>
                      /\ acts[e].after = acts[e].before
                      /\ acts[e].sent = <<>>

\* C24 for the entities the loop of the tick reached: the player, and the
\* enemies handled before the loop was left.
DamageSummedWhenHandled ==
    ~panicked =>
        \A e \in Entities :
            (acts[e].queried /\ (acts[e].update + acts[e].despawn > 0))
            =>  /\ acts[e].damage = acts[e].addressed
                /\ acts[e].after = acts[e].before - acts[e].addressed
                /\ acts[e].sent = IF acts[e].addressed > 0
                                  THEN << [entity |-> acts[e].sent[1].entity,
                                           remain_life |-> acts[e].after] >>
                                  ELSE <<>>

\* ------------------------------------------------- volleys of the spiral

\* C25: one FireTagSpiral::execute call fires at most one volley whatever
\* dt is; it fires exactly when the timer accumulated with dt has reached
\* fire_delay, and the call that fires leaves the timer at zero, the time
\* in excess of fire_delay discarded; a call that does not fire keeps the
\* accumulated time.
C25_OneVolleyPerCall ==
    /\ fire_tag.cur_iter - shot.before.cur_iter \in {0, 1}
    /\ Len(shot.bullets) <= ArmsCount
    /\ Volley <=> (shot.before.cur_time + shot.dt >= FireDelay)
    /\ Volley => fire_tag.cur_time = 0
    /\ ~Volley => (fire_tag.cur_time = shot.before.cur_time + shot.dt
                   /\ shot.bullets = <<>>)

\* C25 witness: a call whose accumulated time covers two fire delays fired
\* one volley and left the timer at zero.
C25_Witness ==
    /\ Volley
    /\ shot.before.cur_time + shot.dt >= 2 * FireDelay
    /\ shot.bullets # <<>>
    /\ fire_tag.cur_time = 0

\* The latest run of suppressed volleys is over: a volley fired after it
\* left no arm out.
LaneClosed == lane.len > 0 /\ fire_tag.cur_iter >= lane.start + lane.len

\* C29: every suppression window of a spiral, the first one after the
\* pattern starts firing included, consists of exactly 5 consecutive
\* volleys, and consecutive windows start exactly 25 volleys apart.
C29_WindowsOfFive ==
    /\ lane.len <= 5
    /\ LaneClosed => lane.len = 5
    /\ lane.prev > 0 => lane.start - lane.prev = 25

\* The windows the code produces: the first is volleys 1..4 (cur_iter is
\* incremented before it is tested, no volley is numbered 0), every later
\* one is the 5 volleys numbered 0..4 modulo 25.
WindowsAsCoded ==
    /\ lane.len > 0 => (lane.start = 1 \/ lane.start % 25 = 0)
    /\ lane.len <= (IF lane.start = 1 THEN 4 ELSE 5)
    /\ LaneClosed => lane.len = (IF lane.start = 1 THEN 4 ELSE 5)
    /\ lane.prev > 0 => lane.start - lane.prev = (IF lane.prev = 1 THEN 24 ELSE 25)

\* ------------------------------------------- a spiral firing at every call

\* A spiral executed with dt >= fire_delay only: every call fires a volley.
NextSpiralRun ==
    \E dt \in FireDelay..MaxFireDt :
        fire_tag.cur_iter < MaxRunVolleys /\ ExecuteSpiral(dt)

SpecSpiralRun == InitSpiral /\ [][NextSpiralRun]_vars

\* Distance of arm k of a volley fired from base_angle to the player angle.
AimDistance(base_angle, k) == Abs(ArmAngle(base_angle, k) - PI)

\* The arms closest to the player angle.
ClosestArms(base_angle) ==
    { k \in 0..(ArmsCount - 1) :
        \A j \in 0..(ArmsCount - 1) :
            AimDistance(base_angle, k) <= AimDistance(base_angle, j) }

\* The lowest of the arms closest to the player angle.
ClosestArm(base_angle) ==
    CHOOSE k \in ClosestArms(base_angle) :
        \A j \in ClosestArms(base_angle) : k <= j

\* C26: the arm a spiral volley leaves out is the arm k whose angle
\* (base_angle + k * TAU / arms_count) mod TAU is closest to PI, the lowest
\* such k when two arms are equally close.
C26_SuppressedArmClosest ==
    (Volley /\ fire_tag.cur_iter % 25 < 5)
        => SuppressedArms(shot.before.cur_angle % TAU, shot.bullets)
               = {ClosestArm(shot.before.cur_angle % TAU)}

\* C26 witness: a volley fired with two arms equally close to PI left out
\* the lower of the two.
C26_Witness ==
    /\ Volley
    /\ Cardinality(ClosestArms(shot.before.cur_angle % TAU)) = 2
    /\ \E k \in ClosestArms(shot.before.cur_angle % TAU) :
          /\ SuppressedArms(shot.before.cur_angle % TAU, shot.bullets) = {k}
          /\ \E j \in ClosestArms(shot.before.cur_angle % TAU) : k < j

C28_SameArmInWindow == Cardinality(lane.arms) <= 1

\* ------------------------------------------- direction of aim burst bullets

\* Vec3, Vec3::X, Vec3::ZERO and a - b.
Vec3(x, y, z) == [x |-> x, y |-> y, z |-> z]
Vec3_X == Vec3(1, 0, 0)
Vec3_ZERO == Vec3(0, 0, 0)
Sub(a, b) == Vec3(a.x - b.x, a.y - b.y, a.z - b.z)

\* Greatest common divisor of two naturals, gcd(0, 0) = 0.
RECURSIVE gcd(_, _)
gcd(a, b) == IF b = 0 THEN a ELSE gcd(b, a % b)

\* v / n for n dividing the components of v.
Scaled(v, n) ==
    LET q(c) == IF c >= 0 THEN c \div n ELSE -((-c) \div n)
    IN  Vec3(q(v.x), q(v.y), q(v.z))

\* Vec3::try_normalize: None for a vector of length 0, else v / |v|.  A
\* direction v / |v| is written as the shortest integer vector along v.
try_normalize(v) ==
    IF v = Vec3_ZERO
    THEN [some |-> FALSE, value |-> Vec3_ZERO]
    ELSE [some |-> TRUE,
          value |-> Scaled(v, gcd(gcd(Abs(v.x), Abs(v.y)), Abs(v.z)))]

\* The direction left as the difference of the positions, not normalised.
aim_dir_raw(origin, player_position) ==
    LET v == Sub(player_position, origin)
    IN  IF v = Vec3_ZERO THEN Vec3_X ELSE v

\* `dir` of FireTagAimBurst::execute:
\* (context.player_position - context.origin).try_normalize().unwrap_or(Vec3::X).
aim_dir(origin, player_position) ==
    LET n == try_normalize(Sub(player_position, origin))
    IN  IF n.some THEN n.value ELSE Vec3_X

\* FireTagAimBurst::execute with its whole context: the bullet is fired with
\* rot = Quat::from_rotation_arc(Vec3::X, dir) and flies along rot * Vec3::X,
\* which is dir.
FireTagAimBurst_execute_at(tag, context) ==
    LET x == FireTagAimBurst_execute(tag, context.dt)
    IN  [tag |-> x.tag,
         bullets |-> [j \in 1..Len(x.bullets) |->
                        [angle |-> x.bullets[j].angle,
                         aimed |-> x.bullets[j].aimed,
                         dir |-> aim_dir(context.origin,
                                         context.player_position)]]]

\* Positions of the play field, the plane z = 0.
Positions == { Vec3(x, y, 0) : x, y \in 0..MaxCoord }

\* An aim burst on an enemy standing at some position of the play field.
InitAim ==
    /\ events = <<>>
    /\ InitSeqVars
    /\ InitLifeVars
    /\ InitColl
    /\ InitCtl
    /\ InitHud
    /\ fire_tag = FireTagAimBurstDefault
    /\ \E origin \in Positions :
          shot = [before |-> FireTagAimBurstDefault, dt |-> 0, bullets |-> <<>>,
                  origin |-> origin, player_position |-> origin]
    /\ emitted = 0
    /\ execs = 0
    /\ allLong = TRUE
    /\ lane = NoLane

\* fire_tag.execute(&mut context) on the aim burst of an enemy that holds
\* its position, the player being at player_position.
ExecuteAimBurstAt(dt, player_position) ==
    /\ LET x == FireTagAimBurst_execute_at(fire_tag,
                    [dt |-> dt, origin |-> shot.origin,
                     player_position |-> player_position])
       IN  /\ fire_tag' = x.tag
           /\ shot' = [before |-> fire_tag, dt |-> dt, bullets |-> x.bullets,
                       origin |-> shot.origin,
                       player_position |-> player_position]
    /\ UNCHANGED <<events, timeline, seqVars, lifeVars, collVars, ctlVars, hudVars,
                   emitted, execs, allLong, lane>>

NextAim ==
    \E dt \in 0..MaxFireDt, player_position \in Positions :
        ExecuteAimBurstAt(dt, player_position)

SpecAim == InitAim /\ [][NextAim]_vars

\* A bullet of the aim burst was due at the latest call.
BulletDue ==
    /\ shot.before.cur_iter < shot.before.bullet_count
    /\ shot.before.cur_time + shot.dt >= shot.before.fire_delay

\* Direction d is the normalised vector v: along v, in the sense of v, and
\* the shortest integer vector that is.
IsNormalized(d, v) ==
    /\ \E m \in 1..(2 * MaxCoord + 1) :
          v = Vec3(m * d.x, m * d.y, m * d.z)
    /\ \A n \in 2..(2 * MaxCoord + 1) :
          ~(d.x % n = 0 /\ d.y % n = 0 /\ d.z % n = 0)

\* C30: when an aim burst bullet is due and the enemy's position equals
\* the player's, the bullet is still emitted, aimed along +X, and cur_iter
\* is incremented; when the positions differ the bullet is aimed along the
\* normalised vector from the enemy to the player.
C30_AimDirection ==
    BulletDue =>
        /\ Len(shot.bullets) = 1
        /\ fire_tag.cur_iter = shot.before.cur_iter + 1
        /\ IF shot.origin = shot.player_position
           THEN shot.bullets[1].dir = Vec3_X
           ELSE IsNormalized(shot.bullets[1].dir,
                             Sub(shot.player_position, shot.origin))

\* C30 witness: a bullet fired by an enemy standing on the player went
\* along +X and was counted.
C30_Witness ==
    /\ BulletDue
    /\ shot.origin = shot.player_position
    /\ shot.bullets = << [angle |-> 0, aimed |-> TRUE, dir |-> Vec3_X] >>
    /\ fire_tag.cur_iter = shot.before.cur_iter + 1

\* The example of C30: enemy at (0,0,0), player at (1,0,0), direction
\* (1,0,0); and a player two units up and two to the right, direction (1,1,0)
\* normalised.
AimExamples ==
    /\ aim_dir(Vec3(0, 0, 0), Vec3(1, 0, 0)) = Vec3(1, 0, 0)
    /\ aim_dir(Vec3(0, 0, 0), Vec3(2, 2, 0)) = Vec3(1, 1, 0)
    /\ aim_dir(Vec3(2, 1, 0), Vec3(0, 1, 0)) = Vec3(-1, 0, 0)
    /\ aim_dir(Vec3(1, 1, 0), Vec3(1, 1, 0)) = Vec3_X

\* --------------------------------------------- one run of update_hud, logged

\* The events one run of update_hud may read for the HUD.
RunInitEvents ==
    {<<>>, << [colors |-> Colors(HudsBars), life_per_bar |-> HudsLifePerBar] >>}
RunUpdateEvents ==
    {<<>>} \cup { << [remain_life |-> r] >> :
                    r \in (-1)..(HudsBars * HudsLifePerBar) }

\* A HUD as spawned, no run of update_hud yet.
InitHudRun ==
    /\ events = <<>>
    /\ InitSeqVars
    /\ InitLifeVars
    /\ InitColl
    /\ InitFire
    /\ InitCtl
    /\ \E n \in 1..HudsBars, c \in 1..HudsLifePerBar, o \in Orientations :
          hud = SpawnedHud(o, c, Colors(n))
    /\ cycle = <<>>
    /\ reinit = FALSE
    /\ crashed = FALSE
    /\ applied = NoLifeUpdate
    /\ hide = "none"
    /\ InitHuds
    /\ run = NoRun

\* One run of update_hud, kept in `run` with the HUD it started from.
UpdateHudRun(init_events, show_events, update_events) ==
    /\ ~crashed
    /\ LET u == update_hud(hud, init_events, show_events, update_events)
       IN  /\ hud' = u.hud
           /\ crashed' = u.panicked
           /\ run' = [any |-> TRUE, before |-> hud, init_events |-> init_events,
                      show_events |-> show_events,
                      update_events |-> update_events, colored |-> u.colored,
                      panicked |-> u.panicked]
    /\ UNCHANGED <<events, timeline, seqVars, lifeVars, collVars, fireVars, ctlVars,
                   cycle, reinit, applied, hide, hudsVars>>

\* The animator system between two runs of update_hud.
TickAnimatorsRun ==
    /\ ~crashed
    /\ hud' = tick_animators(hud)
    /\ hud' # hud
    /\ run' = NoRun
    /\ UNCHANGED <<events, timeline, seqVars, lifeVars, collVars, fireVars, ctlVars,
                   cycle, reinit, crashed, applied, hide, hudsVars>>

NextHudRun ==
    \/ \E init_events \in RunInitEvents, show_events \in ShowLifebarsEvents,
          update_events \in RunUpdateEvents :
          UpdateHudRun(init_events, show_events, update_events)
    \/ TickAnimatorsRun

SpecHudRun == InitHudRun /\ [][NextHudRun]_vars

\* The latest run of update_hud read a ShowLifebarsEvent for the HUD, a
\* life update for it.
ShowReceived == run.any /\ run.show_events # <<>>
UpdateReceived == run.any /\ run.update_events # <<>>

\* C31: a show notification received by a lifebar in phase Idle moves it to
\* SlideIn, starts the slide tween (hidden_pos to visible_pos) from its
\* beginning, and sets hud.index to 0 whatever the index was.
C31_ShowInIdle ==
    (ShowReceived /\ run.before.fill_seq = Phase("Idle"))
        => /\ hud.fill_seq = Phase("SlideIn")
           /\ hud.animator = [state |-> "Playing", tween |-> "Slide",
                              progress |-> 0]
           /\ hud.index = 0

\* C31 witness: an Idle lifebar whose index was on its last segment was
\* shown, and is in SlideIn with index 0.
C31_Witness ==
    /\ ShowReceived
    /\ run.before.fill_seq = Phase("Idle")
    /\ run.before.index > 0
    /\ hud.fill_seq = Phase("SlideIn")
    /\ hud.index = 0

\* C32: a lifebar in Ready never leaves Ready because of a life update:
\* whatever remaining life the update carries, zero and negative values
\* included, the phase after the run that read it is still Ready.
C32_UpdateKeepsReady ==
    (UpdateReceived /\ run.before.fill_seq = Phase("Ready"))
        => hud.fill_seq = Phase("Ready")

\* C32 witness: a Ready lifebar was given a negative remaining life and is
\* still Ready.
C32_Witness ==
    /\ UpdateReceived
    /\ run.before.fill_seq = Phase("Ready")
    /\ run.update_events[1].remain_life < 0
    /\ hud.fill_seq = Phase("Ready")
    /\ hud.index = 0

\* C33: whenever a run of update_hud refreshes the colours, it reads no
\* segment outside the list, the over colour becomes the colour of segment
\* hud.index and the under colour that of segment hud.index - 1, or fully
\* transparent when hud.index is 0.
C33_ColorsOfIndex ==
    (run.any /\ run.colored)
        => /\ ~run.panicked
           /\ hud.over_color = hud.lifebars[hud.index + 1]
           /\ hud.under_color = (IF hud.index > 0 THEN hud.lifebars[hud.index]
                                 ELSE "NONE")

\* The colours a refresh that reads inside the list leaves.
ColorsOfIndexInRange ==
    (run.any /\ run.colored /\ ~run.panicked)
        => /\ hud.index < Len(hud.lifebars)
           /\ hud.over_color = hud.lifebars[hud.index + 1]
           /\ hud.under_color = (IF hud.index > 0 THEN hud.lifebars[hud.index]
                                 ELSE "NONE")

\* A refresh reads outside the list only in Ready, after a life update that
\* put the index past the last segment.
RefreshPanicsOnlyInReady ==
    (run.any /\ run.panicked)
        => /\ hud.fill_seq = Phase("Ready")
           /\ UpdateReceived
           /\ hud.index >= Len(hud.lifebars)

\* ------------------------------------------------ the fill sequence ends

\* update_hud keeps being run (the system runs every frame) and every
\* animation that plays keeps advancing until it has completed.
FairHud ==
    /\ WF_vars(TickAnimatorsRun)
    /\ WF_vars(\E init_events \in RunInitEvents,
                  show_events \in ShowLifebarsEvents,
                  update_events \in RunUpdateEvents :
                  UpdateHudRun(init_events, show_events, update_events))

SpecHudFair == InitHudRun /\ [][NextHudRun]_vars /\ FairHud

\* The lifebar is sliding in or filling up.
Filling == hud.fill_seq.phase \in {"SlideIn", "FillUp"}

\* C34: after a show was accepted, if the animations started complete and
\* update_hud keeps being run, the lifebar reaches Ready: it stays forever
\* neither in SlideIn nor in a FillUp(i).
C34_EventuallyReady == Filling ~> (hud.fill_seq = Phase("Ready"))

\* C34 witness: the run of update_hud that found the fill of the last of
\* HudsBars lifebars completed has entered Ready.
C34_Witness ==
    /\ run.any
    /\ run.before.fill_seq = FillUp(HudsBars - 1)
    /\ hud.fill_seq = Phase("Ready")

\* C35: a show notification received by a lifebar whose phase is not Idle
\* changes nothing: the run leaves the HUD as the same run without the
\* notification does, and when the run had nothing else to do (no other
\* event, no animation completed) phase, hud.index and the two animations
\* are as they were.
C35_ShowOutsideIdle ==
    (ShowReceived /\ run.before.fill_seq # Phase("Idle"))
        => /\ hud = update_hud(run.before, run.init_events, <<>>,
                               run.update_events).hud
           /\ (/\ run.init_events = <<>>
               /\ run.update_events = <<>>
               /\ ~Completed(run.before))
                 => /\ hud.fill_seq = run.before.fill_seq
                    /\ hud.index = run.before.index
                    /\ hud.animator = run.before.animator
                    /\ hud.over_animator = run.before.over_animator

\* C35 witness: a lifebar filling its second segment, the fill half-way
\* through, was shown again and is as it was.
C35_Witness ==
    /\ ShowReceived
    /\ run.init_events = <<>>
    /\ run.update_events = <<>>
    /\ run.before.fill_seq = FillUp(1)
    /\ run.before.over_animator = [state |-> "Playing", tween |-> "Fill",
                                   progress |-> 50]
    /\ hud = run.before

\* C36: a life update addressed to a lifebar that is not Ready in the tick
\* (the run has not made it Ready either: the phase it leaves is the phase
\* it was in when it looked for life updates) leaves hud.index,
\* hud.remain_life and the scale of the over bar unchanged: they are what
\* the same run without the update leaves, and
\* when the run had nothing else to do (no other event, no animation
\* completed) they are what they were.
C36_UpdateOutsideReady ==
    (UpdateReceived /\ hud.fill_seq # Phase("Ready"))
        => /\ LET w == update_hud(run.before, run.init_events, run.show_events,
                                  <<>>).hud
              IN  /\ hud.index = w.index
                  /\ hud.remain_life = w.remain_life
                  /\ hud.over_scale = w.over_scale
           /\ (/\ run.init_events = <<>>
               /\ run.show_events = <<>>
               /\ ~Completed(run.before))
                 => /\ hud.index = run.before.index
                    /\ hud.remain_life = run.before.remain_life
                    /\ hud.over_scale = run.before.over_scale

\* C36 witness: a lifebar half-way through its first fill was sent a
\* remaining life of 0 and kept index, remaining life and scale.
C36_Witness ==
    /\ UpdateReceived
    /\ run.init_events = <<>>
    /\ run.show_events = <<>>
    /\ run.update_events[1].remain_life = 0
    /\ run.before.fill_seq = FillUp(0)
    /\ run.before.over_animator.progress = 50
    /\ run.before.remain_life > 0
    /\ hud.index = run.before.index
    /\ hud.remain_life = run.before.remain_life
    /\ hud.over_scale = run.before.over_scale

\* C37: whenever a lifebar's phase is FillUp(i), hud.index is i, under any
\* interleaving of init, show and life-update notifications with animation
\* completions.
C37_IndexOfFillUp ==
    hud.fill_seq.phase = "FillUp" => hud.index = hud.fill_seq.bar

\* hud.index during FillUp(i) as long as the lifebars were not set again
\* in the show cycle.
IndexOfFillUpUnlessReinit ==
    (hud.fill_seq.phase = "FillUp" /\ ~reinit) => hud.index = hud.fill_seq.bar

\* --------------------------------------------- enemy update, further claims

\* C38: once the player is despawned, every run of update_enemy completes:
\* it does not abort for lack of a player position.
C38_EnemyUpdateWithoutPlayer == ~player.exists => ~panicked

\* A run of update_enemy aborts only when there is no player: the one panic
\* of the loop is q_player.single().
PanicsOnlyWithoutPlayer == panicked => ~player.exists

\* A run of update_enemy aborted on the first enemy it found alive after its
\* damage: that enemy is still in the world and its controller was not
\* updated.
PanicAtLiveEnemy ==
    panicked =>
        \E e \in DOMAIN enemies :
            acts[e].queried /\ enemies[e].remain_life > 0 /\ acts[e].update = 0

\* C39: every enemy that took damage in the latest tick, boss or not, sent
\* one UpdateLifebarsEvent, addressed to the boss lifebar entity of the enemy
\* manager and carrying the enemy's own remaining life; no enemy sent an
\* event to any other lifebar.
C39_EnemiesNotifyBossLifebar ==
    \A e \in EnemyEntities :
        /\ acts[e].damage > 0 => Len(acts[e].sent) = 1
        /\ \A k \in 1..Len(acts[e].sent) :
              /\ acts[e].sent[k].entity = BossLifebar
              /\ acts[e].sent[k].remain_life = acts[e].after

\* C39 witness: in the latest tick a grunt and a boss each took damage and
\* each sent its remaining life to the boss lifebar.
C39_Witness ==
    \E e1, e2 \in EnemyEntities :
        /\ events[e1].enemy = "grunt" /\ events[e2].enemy = "boss"
        /\ acts[e1].damage > 0 /\ acts[e2].damage > 0
        /\ acts[e1].sent = << [entity |-> BossLifebar,
                               remain_life |-> acts[e1].before - acts[e1].damage] >>
        /\ acts[e2].sent = << [entity |-> BossLifebar,
                               remain_life |-> acts[e2].before - acts[e2].damage] >>

\* ------------------------------------------- collisions, further claims

\* The number of DamageEvents of amount 1 a handled collision sent for
\* entity e.
DamageEventsFor(h, e) ==
    Cardinality({ k \in 1..Len(h.damage) :
                    h.damage[k] = [entity |-> e, damage |-> 1] })

\* C40: for a Started collision event the translator sent exactly one
\* DamageEvent of amount 1 addressed to each participant in the Player or
\* Enemy layer and no other DamageEvent, and asked for the despawn of exactly
\* the participants in the PlayerBullet or EnemyBullet layer; for a Stopped
\* event it sent no DamageEvent and asked for no despawn.
C40_DamagePerCollisionStart ==
    \A k \in 1..Len(hits) :
        LET h == hits[k]
            parts == {h.event.data1, h.event.data2}
            hurt == { d \in parts : d.group \in {"Player", "Enemy"} }
            bullets == { d \in parts : d.group \in {"PlayerBullet", "EnemyBullet"} }
        IN  IF h.event.kind = "Started"
            THEN /\ \A d \in hurt : DamageEventsFor(h, d.entity) = 1
                 /\ Len(h.damage) = Cardinality(hurt)
                 /\ h.despawn = { d.entity : d \in bullets }
            ELSE h.damage = <<>> /\ h.despawn = {}

\* C40 witness: the latest run handled the start of a collision of the
\* player with an enemy: one DamageEvent for each of the two, no despawn.
C40_Witness ==
    \E k \in 1..Len(hits) :
        /\ hits[k].event.kind = "Started"
        /\ Involved(hits[k]) = {PlayerEntity, 1}
        /\ Len(hits[k].damage) = 2
        /\ Damaged(hits[k]) = {PlayerEntity, 1}
        /\ hits[k].despawn = {}

\* A run that handled the end of a collision left the bodies alone.
StoppedLeavesBodies ==
    \A k \in 1..Len(hits) :
        hits[k].event.kind = "Stopped" =>
            {hits[k].event.data1, hits[k].event.data2} \subseteq bodies

====
